---- MODULE Spec2Model ----
(***************************************************************************)
(* Model of the AIService singleton of doomless-ai (src/unnamed/part_005): *)
(* the lifecycle of the on-device model handle (initialize / destroy), the *)
(* download progress callback, and the chunked fact extraction             *)
(* (parseTextToFacts) with its progress events.                            *)
(*                                                                         *)
(* JavaScript runs one callback at a time: the code between two awaits is  *)
(* one atomic step.  Every caller c of Procs is one asynchronous call      *)
(* chain; pc[c] is the await it is suspended at.                           *)
(***************************************************************************)
EXTENDS Integers, Sequences, FiniteSets, TLC

\* ------------------------------------------------------------------ bounds
NProcs == 2
MaxCalls == 3
MaxChunks == 2
MaxLines == 2
MaxProgress == 1

Procs == 1..NProcs
\* The caller that runs extractions.  A run reads the service fields and
\* writes them only through initialize(), as any other caller does, so one
\* extracting caller meets every interleaving with the lifecycle calls.
Parsers == {1}

\* `null` for the handle field and for lastDownloadPercent
NoHandle == 0
NoPercent == -1
\* a progress value that is not finite (NaN, Infinity)
NonFinite == -1

\* progress values the backend may report, in thousandths (0 .. 1000)
ProgressValues == {0, 4, 1000, NonFinite}

\* outcomes of getModelConfig(): a configuration that asks for the download,
\* one with preloadModel = false, or an exception
getModelConfig == {"preload", "nopreload", "throws"}

VARIABLES
  backendPresent,       \* CactusLMClass # null (fixed when the module loads)
  lm,                   \* this.lm: NoHandle or the id of a handle
  initialized,          \* this.initialized
  initializing,         \* this.initializing
  fallbackEnabled,      \* this.fallbackEnabled
  lastDownloadPercent,  \* this.lastDownloadPercent
  nextHandle,           \* number of handles constructed so far
  released,             \* handles on which the backend's destroy was invoked
  calls,                \* number of calls made so far
  call,                 \* per caller: the frame of its current (or last) call
  input,                \* the arguments of the pure function under study
  output                \* its result, once it was applied

service == <<lm, initialized, initializing, fallbackEnabled>>
vars == <<backendPresent, lm, initialized, initializing, fallbackEnabled,
          lastDownloadPercent, nextHandle, released, calls, call, input, output>>

\* ------------------------------------------------------------------ frames
\* The frame of a call of operation o; fb is fallbackEnabled when the call is
\* made, n the number of chunks of the text (n = 0: empty after trim()).
\*   pc          the await the call is suspended at ("done": it has ended)
\*   outcome     "none" while it runs, then "returned" or "threw"
\*   inst        the handle prepareModelInstance constructed
\*   dh          the handle destroy() found in this.lm
\*   mode        "model" or "fallback" once parseTextToFacts chose its path
\*   totalChunks chunks.length, chunkIndex the 1-based index of the chunk
\*   resp        what each completion call so far ended with
\*   facts       allFacts, a fact being <<chunk, line>>
\*   events      the progress events the call emitted, in order
Frame(o, n, fb) ==
  [pc |-> "idle", op |-> o, outcome |-> "none", inst |-> NoHandle,
   dh |-> NoHandle, fbAtCall |-> fb, mode |-> "none", input |-> n,
   totalChunks |-> 0, chunkIndex |-> 0, resp |-> <<>>, facts |-> <<>>,
   events |-> <<>>]

\* ------------------------------------------------------------------ events
Ev(t, i, n, k) ==
  [type |-> t, chunkIndex |-> i, totalChunks |-> n, factsGenerated |-> k, progress |-> 0]

DownloadEv(p) ==
  [type |-> "model-download", chunkIndex |-> 0, totalChunks |-> 0, factsGenerated |-> 0, progress |-> p]

\* emitProgress(event): every listener is invoked inside its own try/catch, so
\* the emitting call always goes on; the frame's log keeps what was emitted.
emitProgress(f, evs) == [f EXCEPT !.events = @ \o evs]

\* input and output outside the specifications that study a pure function
NoValue == [kind |-> "none"]

Init ==
  /\ input = NoValue
  /\ output = NoValue
  /\ backendPresent \in BOOLEAN
  /\ lm = NoHandle
  /\ initialized = FALSE
  /\ initializing = FALSE
  /\ fallbackEnabled = FALSE
  /\ lastDownloadPercent = NoPercent
  /\ nextHandle = 0
  /\ released = {}
  /\ calls = 0
  /\ call = [c \in Procs |-> Frame("none", 0, FALSE)]

Idle(c) == call[c].pc \in {"idle", "done"}

\* ------------------------------------------------------------ initialize()
\* State updates of initialize(), one operator per group of assignments.

\* this.initializing = true
EnterAttempt_NoFlag == initializing' = initializing

EnterAttempt == initializing' = TRUE

\* CactusLMClass is null: fallback without an attempt
BackendAbsent_NotInitialized ==
  /\ fallbackEnabled' = TRUE
  /\ initialized' = initialized
  /\ initializing' = FALSE
  /\ lm' = lm

BackendAbsent ==
  /\ fallbackEnabled' = TRUE
  /\ initialized' = TRUE
  /\ initializing' = FALSE
  /\ lm' = lm

\* download and init succeeded: this.lm = lmInstance
AttemptSucceeded_ClearsFallback(h) ==
  /\ lm' = h
  /\ initialized' = TRUE
  /\ initializing' = FALSE
  /\ fallbackEnabled' = FALSE

AttemptSucceeded(h) ==
  /\ lm' = h
  /\ initialized' = TRUE
  /\ initializing' = FALSE
  /\ fallbackEnabled' = fallbackEnabled

\* download or init raised: the inner catch, then the fallback assignments
AttemptFailed_NotInitialized ==
  /\ lm' = NoHandle
  /\ fallbackEnabled' = TRUE
  /\ initializing' = FALSE
  /\ initialized' = initialized

AttemptFailed ==
  /\ lm' = NoHandle
  /\ fallbackEnabled' = TRUE
  /\ initializing' = FALSE
  /\ initialized' = TRUE

\* getModelConfig() raised: the outer catch, which rethrows
ConfigThrew ==
  /\ initializing' = FALSE
  /\ fallbackEnabled' = TRUE
  /\ lm' = lm
  /\ initialized' = initialized

\* The frame of a call when its initialize() ends with r ("returned" or
\* "threw"): initialize() itself ends; parseTextToFacts goes on after
\* `await this.ensureInitialized()`, or ends with the error, which is raised
\* before its try block is entered.
AfterInitialize(f, r) ==
  IF f.op = "initialize" \/ r = "threw"
  THEN [f EXCEPT !.pc = "done", !.outcome = r]
  ELSE [f EXCEPT !.pc = "ensured"]

\* initialize() from its call to its first await, by the call with frame f.
initialize(c, f) ==
  IF initialized
  THEN /\ call' = [call EXCEPT ![c] = AfterInitialize(f, "returned")]
       /\ UNCHANGED <<service, lastDownloadPercent, nextHandle>>
  ELSE IF initializing
  THEN /\ call' = [call EXCEPT ![c] = [f EXCEPT !.pc = "init_wait"]]
       /\ UNCHANGED <<service, lastDownloadPercent, nextHandle>>
  ELSE IF ~backendPresent
  THEN /\ BackendAbsent
       /\ call' = [call EXCEPT ![c] = AfterInitialize(f, "returned")]
       /\ UNCHANGED <<lastDownloadPercent, nextHandle>>
  ELSE \E cfg \in getModelConfig :
         IF cfg = "throws"
         THEN /\ ConfigThrew
              /\ call' = [call EXCEPT ![c] = AfterInitialize(f, "threw")]
              /\ UNCHANGED <<lastDownloadPercent, nextHandle>>
         ELSE \* prepareModelInstance: createModelInstance, then download
              /\ EnterAttempt
              /\ UNCHANGED <<lm, initialized, fallbackEnabled>>
              /\ nextHandle' = nextHandle + 1
              /\ IF cfg = "preload"
                 THEN /\ lastDownloadPercent' = NoPercent
                      /\ call' = [call EXCEPT ![c] =
                                    [f EXCEPT !.pc = "download", !.inst = nextHandle + 1]]
                 ELSE /\ lastDownloadPercent' = lastDownloadPercent
                      /\ call' = [call EXCEPT ![c] =
                                    [f EXCEPT !.pc = "init", !.inst = nextHandle + 1]]

\* a caller calls initialize()
CallInitialize(c) ==
  /\ Idle(c)
  /\ calls < MaxCalls
  /\ calls' = calls + 1
  /\ initialize(c, [Frame("initialize", 0, fallbackEnabled) EXCEPT !.pc = "called"])
  /\ UNCHANGED <<input, output, backendPresent, released>>

\* the setInterval callback of a caller that found an initialization in flight
Poll(c) ==
  /\ call[c].pc = "init_wait"
  /\ initialized
  /\ call' = [call EXCEPT ![c] = AfterInitialize(call[c], "returned")]
  /\ UNCHANGED <<input, output, backendPresent, service, lastDownloadPercent, nextHandle, released, calls>>

\* Math.round(progress * 100), progress given in thousandths
Percent(p) == (p + 5) \div 10

\* the onProgress callback of instance.download
DownloadProgress(c, p) ==
  /\ call[c].pc = "download"
  /\ IF p = NonFinite \/ lastDownloadPercent = Percent(p)
     THEN UNCHANGED <<lastDownloadPercent, call>>
     ELSE /\ Len(call[c].events) < MaxProgress
          /\ lastDownloadPercent' = Percent(p)
          /\ call' = [call EXCEPT ![c] = emitProgress(call[c], <<DownloadEv(p)>>)]
  /\ UNCHANGED <<input, output, backendPresent, service, nextHandle, released, calls>>

\* instance.download resolves: initialize() goes on to lmInstance.init()
DownloadSucceeds(c) ==
  /\ call[c].pc = "download"
  /\ call' = [call EXCEPT ![c].pc = "init"]
  /\ UNCHANGED <<input, output, backendPresent, service, lastDownloadPercent, nextHandle, released, calls>>

\* instance.download rejects: 'Failed to download Cactus model', caught by
\* initialize(), which falls back
DownloadFails(c) ==
  /\ call[c].pc = "download"
  /\ AttemptFailed
  /\ call' = [call EXCEPT ![c] = AfterInitialize(call[c], "returned")]
  /\ UNCHANGED <<input, output, backendPresent, lastDownloadPercent, nextHandle, released, calls>>

\* lmInstance.init() resolves
InitSucceeds(c) ==
  /\ call[c].pc = "init"
  /\ AttemptSucceeded(call[c].inst)
  /\ call' = [call EXCEPT ![c] = AfterInitialize(call[c], "returned")]
  /\ UNCHANGED <<input, output, backendPresent, lastDownloadPercent, nextHandle, released, calls>>

\* lmInstance.init() rejects
InitFails(c) ==
  /\ call[c].pc = "init"
  /\ AttemptFailed
  /\ call' = [call EXCEPT ![c] = AfterInitialize(call[c], "returned")]
  /\ UNCHANGED <<input, output, backendPresent, lastDownloadPercent, nextHandle, released, calls>>

\* --------------------------------------------------------------- destroy()
\* this.lm = null; this.initialized = false
DestroyReset_KeepsInitialized ==
  /\ lm' = NoHandle
  /\ initialized' = initialized

DestroyReset ==
  /\ lm' = NoHandle
  /\ initialized' = FALSE

\* a caller calls destroy(): with a handle it invokes the backend's destroy
\* and awaits it; without one it returns at once
CallDestroy(c) ==
  /\ Idle(c)
  /\ calls < MaxCalls
  /\ calls' = calls + 1
  /\ IF lm # NoHandle
     THEN /\ released' = released \cup {lm}
          /\ call' = [call EXCEPT ![c] =
                        [Frame("destroy", 0, fallbackEnabled) EXCEPT !.pc = "destroy", !.dh = lm]]
     ELSE /\ released' = released
          /\ call' = [call EXCEPT ![c] =
                        [Frame("destroy", 0, fallbackEnabled) EXCEPT !.pc = "done", !.outcome = "returned"]]
  /\ UNCHANGED <<input, output, backendPresent, service, lastDownloadPercent, nextHandle>>

\* the backend's destroy resolves or rejects (a rejection is caught and
\* logged): in both cases the fields are reset
DestroyEnds(c) ==
  /\ call[c].pc = "destroy"
  /\ DestroyReset
  /\ call' = [call EXCEPT ![c].pc = "done", ![c].outcome = "returned"]
  /\ UNCHANGED <<input, output, backendPresent, initializing, fallbackEnabled, lastDownloadPercent,
                 nextHandle, released, calls>>

\* ------------------------------------------------------ parseTextToFacts()
\* How a completion call ended: "ok" with k surviving fact lines, "fail"
\* (rejected, success = false, or no handle), or "noresponse" (success
\* without a response string).
Resp(kind, k) == [kind |-> kind, lines |-> k]

\* The facts of the k lines that survive the post-processing of the response
\* to chunk i, in line order.
ChunkFacts(i, k) == [j \in 1..k |-> <<i, j>>]

\* chunk i is started and its completion call cannot be issued or fails:
\* the catch inside the loop ends the iteration with `continue`
ChunkSkipped(f) == [f EXCEPT !.resp = Append(@, Resp("fail", 0))]

\* the response to chunk i gave k fact lines
ChunkDone_Prepends(f, i, k) ==
  emitProgress([f EXCEPT !.resp = Append(@, Resp("ok", k)), !.facts = ChunkFacts(i, k) \o @],
               <<Ev("parse-chunk-complete", i, f.totalChunks, k)>>)

ChunkDone(f, i, k) ==
  emitProgress([f EXCEPT !.resp = Append(@, Resp("ok", k)), !.facts = @ \o ChunkFacts(i, k)],
               <<Ev("parse-chunk-complete", i, f.totalChunks, k)>>)

\* the end of the loop without the parse-complete event
ParseComplete_Silent(f) == [f EXCEPT !.pc = "done", !.outcome = "returned"]

\* after the loop: parse-complete, return allFacts
ParseComplete(f) ==
  [emitProgress(f, <<Ev("parse-complete", 0, f.totalChunks, Len(f.facts))>>)
     EXCEPT !.pc = "done", !.outcome = "returned"]

\* The chunk loop from chunk i up to its next await, h being this.lm:
\* parse-chunk-start, then runCompletion, which raises 'Model not initialized'
\* when no handle is held (the chunk is skipped and the loop goes on) and
\* otherwise awaits the handle's complete().
RECURSIVE ChunkLoop(_, _, _)
ChunkLoop(f, i, h) ==
  IF i > f.totalChunks THEN ParseComplete(f)
  ELSE LET g == emitProgress(f, <<Ev("parse-chunk-start", i, f.totalChunks, 0)>>)
       IN  IF h = NoHandle
           THEN ChunkLoop(ChunkSkipped(g), i + 1, h)
           ELSE [g EXCEPT !.pc = "complete", !.chunkIndex = i]

\* fallbackParseTextToFacts on a text with k distinct sentences: four events,
\* always, then the facts
fallbackParseTextToFacts_NoChunkEvents(f, k) ==
  [emitProgress([f EXCEPT !.mode = "fallback", !.totalChunks = 1, !.facts = ChunkFacts(1, k)],
                <<Ev("parse-start", 0, 1, 0),
                  Ev("parse-complete", 0, 1, k)>>)
     EXCEPT !.pc = "done", !.outcome = "returned"]

fallbackParseTextToFacts(f, k) ==
  [emitProgress([f EXCEPT !.mode = "fallback", !.totalChunks = 1, !.facts = ChunkFacts(1, k)],
                <<Ev("parse-start", 0, 1, 0),
                  Ev("parse-chunk-start", 1, 1, 0),
                  Ev("parse-chunk-complete", 1, 1, k),
                  Ev("parse-complete", 0, 1, k)>>)
     EXCEPT !.pc = "done", !.outcome = "returned"]

\* a caller calls parseTextToFacts(text, topic): ensureInitialized() calls
\* initialize() unless initialized
CallParse(c) ==
  /\ Idle(c)
  /\ c \in Parsers
  /\ calls < MaxCalls
  /\ calls' = calls + 1
  /\ LET f == [Frame("parse", 0, fallbackEnabled) EXCEPT !.pc = "called"]
     IN  IF initialized
         THEN /\ call' = [call EXCEPT ![c] = [f EXCEPT !.pc = "ensured"]]
              /\ UNCHANGED <<service, lastDownloadPercent, nextHandle>>
         ELSE initialize(c, f)
  /\ UNCHANGED <<input, output, backendPresent, released>>

\* parseTextToFacts after `await this.ensureInitialized()`, the text having
\* n chunks (n = 0: it is empty after trim()): the fallback when
\* fallbackEnabled or no handle; else trim, chunk, parse-start and the loop
ParseStart(c, n) ==
  /\ call[c].pc = "ensured"
  /\ LET f == [call[c] EXCEPT !.input = n]
     IN  IF fallbackEnabled \/ lm = NoHandle
         THEN \E k \in 0..MaxLines :
                /\ (f.input = 0 => k = 0)
                /\ call' = [call EXCEPT ![c] = fallbackParseTextToFacts(f, k)]
         ELSE IF f.input = 0
         THEN call' = [call EXCEPT ![c] =
                         [f EXCEPT !.mode = "model", !.pc = "done", !.outcome = "returned"]]
         ELSE call' = [call EXCEPT ![c] =
                         ChunkLoop(emitProgress([f EXCEPT !.mode = "model", !.totalChunks = f.input],
                                                <<Ev("parse-start", 0, f.input, 0)>>),
                                   1, lm)]
  /\ UNCHANGED <<input, output, backendPresent, service, lastDownloadPercent, nextHandle, released, calls>>

\* the completion call for the current chunk succeeds with a response of k
\* surviving fact lines
CompletionSucceeds(c, k) ==
  /\ call[c].pc = "complete"
  /\ call' = [call EXCEPT ![c] =
                ChunkLoop(ChunkDone(call[c], call[c].chunkIndex, k), call[c].chunkIndex + 1, lm)]
  /\ UNCHANGED <<input, output, backendPresent, service, lastDownloadPercent, nextHandle, released, calls>>

\* the completion call for the current chunk fails: complete() rejects or
\* reports success = false, and runCompletion raises
CompletionFails_Aborts(c) ==
  /\ call[c].pc = "complete"
  /\ call' = [call EXCEPT ![c] =
                [emitProgress(ChunkSkipped(call[c]), <<Ev("parse-error", 0, 0, 0)>>)
                   EXCEPT !.pc = "done", !.outcome = "threw"]]
  /\ UNCHANGED <<input, output, backendPresent, service, lastDownloadPercent, nextHandle, released, calls>>

CompletionFails(c) ==
  /\ call[c].pc = "complete"
  /\ call' = [call EXCEPT ![c] =
                ChunkLoop(ChunkSkipped(call[c]), call[c].chunkIndex + 1, lm)]
  /\ UNCHANGED <<input, output, backendPresent, service, lastDownloadPercent, nextHandle, released, calls>>

\* complete() reports success without a response string: stripThinkingBlocks
\* hands the missing value through, `cleanedResponse.split` raises a
\* TypeError outside the loop's catch, and the outer catch emits parse-error
\* and rethrows
CompletionMalformed(c) ==
  /\ call[c].pc = "complete"
  /\ call' = [call EXCEPT ![c] =
                [emitProgress([call[c] EXCEPT !.resp = Append(@, Resp("noresponse", 0))],
                              <<Ev("parse-error", 0, 0, 0)>>)
                   EXCEPT !.pc = "done", !.outcome = "threw"]]
  /\ UNCHANGED <<input, output, backendPresent, service, lastDownloadPercent, nextHandle, released, calls>>

\* ------------------------------------------------------------ specification
Next ==
  \E c \in Procs :
    \/ CallInitialize(c)
    \/ Poll(c)
    \/ \E p \in ProgressValues : DownloadProgress(c, p)
    \/ DownloadSucceeds(c)
    \/ DownloadFails(c)
    \/ InitSucceeds(c)
    \/ InitFails(c)
    \/ CallDestroy(c)
    \/ DestroyEnds(c)
    \/ CallParse(c)
    \/ \E n \in 0..MaxChunks : ParseStart(c, n)
    \/ \E k \in 0..MaxLines : CompletionSucceeds(c, k)
    \/ CompletionFails(c)
    \/ CompletionMalformed(c)

Spec == Init /\ [][Next]_vars

\* The event loop runs every callback that is ready: timers fire, and the
\* backend settles every promise it returned.
Scheduling ==
  \A c \in Procs :
    /\ WF_vars(Poll(c))
    /\ WF_vars(DownloadSucceeds(c) \/ DownloadFails(c))
    /\ WF_vars(InitSucceeds(c) \/ InitFails(c))
    /\ WF_vars(DestroyEnds(c))
    /\ WF_vars(\E n \in 0..MaxChunks : ParseStart(c, n))
    /\ WF_vars(CompletionFails(c) \/ CompletionMalformed(c) \/ \E k \in 0..MaxLines : CompletionSucceeds(c, k))

FairSpec == Spec /\ Scheduling

\* ======================================================= text functions
\* The string functions of the extraction, on texts given as runs of equal
\* characters: a text is a sequence of runs [ch, n] (n >= 1 times the
\* character ch) in which neighbouring runs have different characters, so
\* that equal texts are equal sequences.  The texts hold no '\r', no think
\* tag and no other terminator, bullet, digit or separator than the ones
\* named here.
MaxRuns == 4
MaxFactLength == 200
MaxFallbackFacts == 120

Letters == {"a", "A"}
Whitespace == {" ", "\n"}
Terminators == {".", "!", "?"}
Bullets == {"-"}
Digits == {"1"}
\* [\.\)\-:] of the numbering prefix
Separators == {".", "-"}

Run(c, k) == [ch |-> c, n |-> k]

RunSet ==
  {Run(c, k) : c \in Letters, k \in {1, MaxFactLength - 1, MaxFactLength}}
    \cup {Run(c, 1) : c \in Whitespace \cup Terminators \cup Bullets \cup Digits}

Canonical(s) == \A i \in 1..(Len(s) - 1) : s[i].ch # s[i + 1].ch

Texts ==
  {s \in UNION {[1..k -> RunSet] : k \in 0..MaxRuns} : Canonical(s)}

\* String.length
RECURSIVE StrLen(_)
StrLen(s) == IF s = <<>> THEN 0 ELSE Head(s).n + StrLen(Tail(s))

\* neighbouring runs of one character joined
RECURSIVE Canon(_)
Canon(s) ==
  IF Len(s) < 2 THEN s
  ELSE IF s[1].ch = s[2].ch
       THEN Canon(<<Run(s[1].ch, s[1].n + s[2].n)>> \o SubSeq(s, 3, Len(s)))
       ELSE <<s[1]>> \o Canon(Tail(s))

\* s without its first character
Rest(s) ==
  IF Head(s).n = 1 THEN Tail(s) ELSE <<Run(Head(s).ch, Head(s).n - 1)>> \o Tail(s)

RECURSIVE trimStart(_)
trimStart(s) ==
  IF s # <<>> /\ Head(s).ch \in Whitespace THEN trimStart(Tail(s)) ELSE s

RECURSIVE trimEnd(_)
trimEnd(s) ==
  IF s # <<>> /\ s[Len(s)].ch \in Whitespace THEN trimEnd(SubSeq(s, 1, Len(s) - 1)) ELSE s

trim(s) == trimEnd(trimStart(s))

\* s.slice(0, k) and s.substring(0, k)
RECURSIVE slice(_, _)
slice(s, k) ==
  IF s = <<>> \/ k <= 0 THEN <<>>
  ELSE IF Head(s).n <= k
       THEN <<Head(s)>> \o slice(Tail(s), k - Head(s).n)
       ELSE <<Run(Head(s).ch, k)>>

LowerChar(c) == IF c = "A" THEN "a" ELSE c

toLowerCase(s) == Canon([i \in 1..Len(s) |-> Run(LowerChar(s[i].ch), s[i].n)])

\* s.split('\n')
RECURSIVE split(_, _)
split(s, cur) ==
  IF s = <<>> THEN <<cur>>
  ELSE IF Head(s).ch = "\n"
       THEN <<cur>> \o split(Rest(s), <<>>)
       ELSE split(Tail(s), Append(cur, Head(s)))

\* s.replace(/\s+/g, ' ')
RECURSIVE collapse(_)
collapse(s) ==
  IF s = <<>> THEN <<>>
  ELSE IF Head(s).ch \in Whitespace
       THEN <<Run(" ", 1)>> \o collapse(trimStart(s))
       ELSE <<Head(s)>> \o collapse(Tail(s))

\* the runs at the start of s whose character is not a terminator
RECURSIVE Body(_)
Body(s) ==
  IF s = <<>> \/ Head(s).ch \in Terminators THEN <<>> ELSE <<Head(s)>> \o Body(Tail(s))

\* the match without the terminator at the end of a stretch
RECURSIVE match_DropsTerminator(_)
match_DropsTerminator(s) ==
  IF s = <<>> THEN <<>>
  ELSE IF Head(s).ch \in Terminators THEN match_DropsTerminator(Rest(s))
  ELSE <<Body(s)>> \o match_DropsTerminator(SubSeq(s, Len(Body(s)) + 1, Len(s)))

\* line.match(/[^.!?]+[.!?]?/g): from left to right, the longest stretch of
\* characters that are no terminator with the one terminator after it, if
\* any; terminators that follow no such stretch belong to no match.  The
\* empty sequence stands for null.
RECURSIVE match(_)
match(s) ==
  IF s = <<>> THEN <<>>
  ELSE IF Head(s).ch \in Terminators THEN match(Rest(s))
  ELSE LET b == Body(s)
           r == SubSeq(s, Len(b) + 1, Len(s))
       IN  IF r = <<>> THEN <<b>>
           ELSE <<Append(b, Run(Head(r).ch, 1))>> \o match(Rest(r))

\* fragment.replace(/^[*-]\s*/, '')
stripBullet(s) ==
  IF s # <<>> /\ Head(s).ch \in Bullets THEN trimStart(Rest(s)) ELSE s

\* line.replace(/^[\d]+\s*[\.\)\-:]\s*/, '')
RECURSIVE afterDigits(_)
afterDigits(s) ==
  IF s # <<>> /\ Head(s).ch \in Digits THEN afterDigits(Tail(s)) ELSE s

stripNumbering(s) ==
  LET t == trimStart(afterDigits(s))
  IN  IF s # <<>> /\ Head(s).ch \in Digits /\ t # <<>> /\ Head(t).ch \in Separators
      THEN trimStart(Rest(t))
      ELSE s

\* stripThinkingBlocks on a text without a think tag
stripThinkingBlocks(raw) == IF raw = <<>> THEN raw ELSE trim(raw)

Fact(content) == [id |-> 0, content |-> content, source |-> "default"]

\* the sentences of one line of the text
cleaned(fragment) == trim(collapse(stripBullet(fragment)))

NonEmpty(s) == s # <<>>

LineSentences(rawLine) ==
  LET line == trim(rawLine)
      matches == match(line)
  IN  IF line = <<>> THEN <<>>
      ELSE IF matches # <<>>
           THEN SelectSeq([i \in 1..Len(matches) |-> cleaned(matches[i])], NonEmpty)
           ELSE <<collapse(line)>>

RECURSIVE Flatten(_)
Flatten(ss) == IF ss = <<>> THEN <<>> ELSE Head(ss) \o Flatten(Tail(ss))

Sentences(text) ==
  LET lines == split(text, <<>>)
  IN  Flatten([i \in 1..Len(lines) |-> LineSentences(lines[i])])

\* trimmed.length > 200 ? trimmed.slice(0, 200).trimEnd() : trimmed
Bounded_NoTruncation(trimmed) == trimmed

Bounded(trimmed) ==
  IF StrLen(trimmed) > MaxFactLength THEN trimEnd(slice(trimmed, MaxFactLength)) ELSE trimmed

\* The loop over the sentences, written without recursion so that lists of
\* more than 120 sentences can be evaluated.  The set uniqueFacts holds the
\* lowercased text of every sentence met so far that is not empty: sentence i
\* passes the test `uniqueFacts.has(normalized)` when no earlier sentence has
\* its lowercased text.
Unseen(sentences) ==
  {i \in 1..Len(sentences) :
     /\ trim(sentences[i]) # <<>>
     /\ \A j \in 1..(i - 1) :
          toLowerCase(trim(sentences[j])) # toLowerCase(trim(sentences[i]))}

\* the sentences that reach facts.push unless the loop has ended
Pushable(sentences) == {i \in Unseen(sentences) : Bounded(trim(sentences[i])) # <<>>}

\* if (facts.length >= 120) break, without the break
Kept_NoCap(n) == n

\* if (facts.length >= 120) break: the number of facts when n can be pushed
Kept(n) == IF n < MaxFallbackFacts THEN n ELSE MaxFallbackFacts

\* the list facts after the loop
UniqueFacts(sentences) ==
  LET pushable == Pushable(sentences)
      at(r) == CHOOSE i \in pushable : Cardinality({j \in pushable : j <= i}) = r
  IN  [r \in 1..Kept(Cardinality(pushable)) |-> Fact(Bounded(trim(sentences[at(r)])))]

\* the facts fallbackParseTextToFacts returns for a text
FallbackFacts(text) == UniqueFacts(Sentences(text))

\* .filter((line) => line.length > 0 && line.length <= 200)
FitsFact(line) == StrLen(line) > 0 /\ StrLen(line) <= MaxFactLength

\* the fact lines of a response of the model
factLines(response) ==
  LET lines == split(stripThinkingBlocks(stripThinkingBlocks(response)), <<>>)
  IN  SelectSeq([i \in 1..Len(lines) |-> trim(stripBullet(stripNumbering(trim(lines[i]))))],
                FitsFact)

\* the facts the chunk loop adds for one response
ResponseFacts(response) ==
  LET lines == factLines(response)
  IN  [i \in 1..Len(lines) |-> Fact(slice(lines[i], MaxFactLength))]

\* the service is not involved in the study of a pure function
ServiceUnused ==
  /\ backendPresent = FALSE
  /\ lm = NoHandle
  /\ initialized = FALSE
  /\ initializing = FALSE
  /\ fallbackEnabled = FALSE
  /\ lastDownloadPercent = NoPercent
  /\ nextHandle = 0
  /\ released = {}
  /\ calls = 0
  /\ call = [c \in Procs |-> Frame("none", 0, FALSE)]

ServiceVars == <<backendPresent, lm, initialized, initializing, fallbackEnabled,
                 lastDownloadPercent, nextHandle, released, calls, call>>

TextInit ==
  /\ ServiceUnused
  /\ input \in {[kind |-> "text", text |-> t] : t \in Texts}
  /\ output = NoValue

\* the text goes through the fallback path
ExtractFallback ==
  /\ input.kind = "text"
  /\ output = NoValue
  /\ output' = [kind |-> "facts", path |-> "fallback", facts |-> FallbackFacts(input.text)]
  /\ UNCHANGED <<input, ServiceVars>>

\* the text is the response of the model to a chunk
ExtractModel ==
  /\ input.kind = "text"
  /\ output = NoValue
  /\ output' = [kind |-> "facts", path |-> "model", facts |-> ResponseFacts(input.text)]
  /\ UNCHANGED <<input, ServiceVars>>

TextNext == ExtractFallback \/ ExtractModel

TextSpec == TextInit /\ [][TextNext]_vars

\* ------------------------------------------------- texts made of sentences
\* Texts written from a description: the sentences, each a body and the
\* terminator that ends it, and what separates two sentences.
MaxSentences == 3

Sentence(body, term) == [body |-> body, term |-> term]

\* a sentence as a string: its body followed by its terminator
SentenceText(st) == Append(st.body, Run(st.term, 1))

\* bodies: one letter, two words, and letters for 199 and 200 characters
Bodies ==
  {<<Run("a", 1)>>, <<Run("A", 1)>>, <<Run("a", 1), Run(" ", 1), Run("a", 1)>>,
   <<Run("a", MaxFactLength - 1)>>, <<Run("a", MaxFactLength)>>}

SentenceKinds == {Sentence(b, t) : b \in Bodies, t \in Terminators}

\* nothing, a blank or a line break between two sentences
Gaps == {<<>>, <<Run(" ", 1)>>, <<Run("\n", 1)>>}

RECURSIVE Joined(_, _)
Joined(sentences, gap) ==
  IF sentences = <<>> THEN <<>>
  ELSE IF Len(sentences) = 1 THEN SentenceText(Head(sentences))
  ELSE SentenceText(Head(sentences)) \o gap \o Joined(Tail(sentences), gap)

\* the text of a description
Written(d) == Canon(Joined(d.sentences, d.gap))

\* n sentences of 1, 2, .. n letters, which are all different
Counting(n) == [k \in 1..n |-> Sentence(<<Run("a", k)>>, ".")]

\* up to MaxSentences sentences of every kind with every gap
SentenceDescriptions ==
  {[sentences |-> ss, gap |-> g] :
     ss \in UNION {[1..n -> SentenceKinds] : n \in 0..MaxSentences}, g \in Gaps}

\* one sentence less than, as many as, and one more than the 120 kept, also
\* with the first sentence repeated at the end
LongDescriptions ==
  {[sentences |-> Counting(n) \o extra, gap |-> <<Run(" ", 1)>>] :
     n \in (MaxFallbackFacts - 1)..(MaxFallbackFacts + 1),
     extra \in {<<>>, <<Sentence(<<Run("A", 1)>>, ".")>>}}

\* the sentences the first loop of fallbackParseTextToFacts collects from
\* the text of a description with blanks or line breaks between the
\* sentences: the sentences themselves
Collected(d) == [i \in 1..Len(d.sentences) |-> SentenceText(d.sentences[i])]

SentenceInit ==
  /\ ServiceUnused
  /\ input \in {[kind |-> "text", text |-> Written(d), d |-> d] : d \in SentenceDescriptions}
              \cup {[kind |-> "sentences", sentences |-> Collected(d), d |-> d] :
                      d \in LongDescriptions}
  /\ output = NoValue

\* the second loop of the fallback path on the sentences collected
CollectFacts ==
  /\ input.kind = "sentences"
  /\ output = NoValue
  /\ output' = [kind |-> "facts", path |-> "fallback", facts |-> UniqueFacts(input.sentences)]
  /\ UNCHANGED <<input, ServiceVars>>

SentenceNext == ExtractFallback \/ CollectFacts

SentenceSpec == SentenceInit /\ [][SentenceNext]_vars

\* ------------------------------------------------------------- the chunks
MaxPieces == 3
ChunkLimit == 6000

\* s.slice(k)
RECURSIVE drop(_, _)
drop(s, k) ==
  IF s = <<>> \/ k <= 0 THEN s
  ELSE IF Head(s).n <= k
       THEN drop(Tail(s), k - Head(s).n)
       ELSE <<Run(Head(s).ch, Head(s).n - k)>> \o Tail(s)

\* the chunk size without the limit
chunkSize_NoLimit(length) == length

\* normalizedText.length <= 6000 ? normalizedText.length : 6000
chunkSize(length) == IF length <= ChunkLimit THEN length ELSE ChunkLimit

\* for (let i = 0; i < normalizedText.length; i += chunkSize)
\*   chunks.push(normalizedText.slice(i, i + chunkSize)), rest being
\* normalizedText.slice(i)
RECURSIVE chunksFrom(_, _)
chunksFrom(rest, size) ==
  IF rest = <<>> THEN <<>>
  ELSE <<slice(rest, size)>> \o chunksFrom(drop(rest, size), size)

\* the chunks of the text of a parseTextToFacts call in the model path
chunks(text) ==
  LET normalizedText == trim(text)
  IN  chunksFrom(normalizedText, chunkSize(StrLen(normalizedText)))

\* texts of up to MaxPieces runs: one letter, one letter less than a chunk, a
\* whole chunk, and a blank
ChunkRuns ==
  {Run("a", 1), Run("a", ChunkLimit - 1), Run("a", ChunkLimit),
   Run("A", ChunkLimit), Run(" ", 1)}

ChunkTexts ==
  {t \in UNION {[1..k -> ChunkRuns] : k \in 0..MaxPieces} : Canonical(t)}

ChunkInit ==
  /\ input \in {[kind |-> "text", text |-> t] : t \in ChunkTexts}
  /\ output = NoValue
  /\ backendPresent \in BOOLEAN
  /\ lm = NoHandle
  /\ initialized = FALSE
  /\ initializing = FALSE
  /\ fallbackEnabled = FALSE
  /\ lastDownloadPercent = NoPercent
  /\ nextHandle = 0
  /\ released = {}
  /\ calls = 0
  /\ call = [c \in Procs |-> Frame("none", 0, FALSE)]

\* parseTextToFacts after `await this.ensureInitialized()` on the text under
\* study
ParseText(c) == ParseStart(c, Len(chunks(input.text)))

\* one caller extracts, every caller may call destroy()
ChunkNext ==
  \/ \E c \in Parsers :
       \/ CallParse(c)
       \/ DownloadSucceeds(c)
       \/ DownloadFails(c)
       \/ InitSucceeds(c)
       \/ InitFails(c)
       \/ ParseText(c)
       \/ \E k \in 0..MaxLines : CompletionSucceeds(c, k)
       \/ CompletionFails(c)
       \/ CompletionMalformed(c)
  \/ \E c \in Procs :
       \/ CallDestroy(c)
       \/ DestroyEnds(c)

ChunkSpec == ChunkInit /\ [][ChunkNext]_vars

\* ======================================================= parseQuizBatch()
\* The quiz-batch parser on responses given as sequences of tokens.  A token
\* is a bracket, brace, comma or colon, a quoted string (with double or
\* single quotes), an unquoted word, a number, or a stretch of prose without
\* any of these.  The strings hold no quote, backslash, bracket, brace, comma
\* or colon, so that the regular expressions of the parser, which work on
\* characters, act on whole tokens.
MaxItems == 5
MaxVaried == 2
MaxExpected == 3

\* a string: its text without the blanks around it (core), and the number of
\* blanks before and after it
Text(l, c, r) == [lead |-> l, core |-> c, trail |-> r]

Plain(c) == Text(0, c, 0)

trimText(v) == Plain(v.core)

TextLength(v) == v.lead + v.trail + (IF v.core = "" THEN 0 ELSE 1)

\* JSON values; numbers in tenths, a number beyond the range of a double
\* (such as 1e999) being not finite
StrVal(v) == [t |-> "str", v |-> v]

Num(n) == [t |-> "num", finite |-> TRUE, v |-> n]

Infinite == [t |-> "num", finite |-> FALSE, v |-> 0]

Lit(name) == [t |-> "lit", v |-> name]

Arr(items) == [t |-> "arr", items |-> items]

Obj(fields) == [t |-> "obj", fields |-> fields]

Member(k, v) == [key |-> k, val |-> v]

Undefined == [t |-> "undefined"]

\* tokens
Tok(t) == [t |-> t]

StrTok(q, v) == [t |-> "str", q |-> q, v |-> v]

WordTok(name) == [t |-> "word", v |-> name]

NumTok(num) == [t |-> "numtok", num |-> num]

Prose == Tok("prose")

\* ------------------------------------------------------------- JSON.parse
Fail == [ok |-> FALSE]

Ok(v, rest) == [ok |-> TRUE, val |-> v, rest |-> rest]

RECURSIVE ParseValue(_), ParseElements(_, _), ParseMembers(_, _)
ParseValue(ts) ==
  IF ts = <<>> THEN Fail
  ELSE LET h == Head(ts)
           r == Tail(ts)
       IN  CASE h.t = "str" -> IF h.q = "dq" THEN Ok(StrVal(h.v), r) ELSE Fail
             [] h.t = "numtok" -> Ok(h.num, r)
             [] h.t = "word" ->
                  IF h.v \in {"true", "false", "null"} THEN Ok(Lit(h.v), r) ELSE Fail
             [] h.t = "[" ->
                  IF r # <<>> /\ Head(r).t = "]" THEN Ok(Arr(<<>>), Tail(r))
                  ELSE ParseElements(r, <<>>)
             [] h.t = "{" ->
                  IF r # <<>> /\ Head(r).t = "}" THEN Ok(Obj(<<>>), Tail(r))
                  ELSE ParseMembers(r, <<>>)
             [] OTHER -> Fail

ParseElements(ts, acc) ==
  LET e == ParseValue(ts)
  IN  IF ~e.ok \/ e.rest = <<>> THEN Fail
      ELSE IF Head(e.rest).t = "," THEN ParseElements(Tail(e.rest), Append(acc, e.val))
      ELSE IF Head(e.rest).t = "]" THEN Ok(Arr(Append(acc, e.val)), Tail(e.rest))
      ELSE Fail

ParseMembers(ts, acc) ==
  IF Len(ts) < 3 \/ ts[1].t # "str" \/ ts[2].t # ":" THEN Fail
  ELSE IF ts[1].q # "dq" THEN Fail
  ELSE LET e == ParseValue(SubSeq(ts, 3, Len(ts)))
           m == Member(ts[1].v.core, IF e.ok THEN e.val ELSE Undefined)
       IN  IF ~e.ok \/ e.rest = <<>> THEN Fail
           ELSE IF Head(e.rest).t = "," THEN ParseMembers(Tail(e.rest), Append(acc, m))
           ELSE IF Head(e.rest).t = "}" THEN Ok(Obj(Append(acc, m)), Tail(e.rest))
           ELSE Fail

\* JSON.parse(candidate): the whole text is one value, or it raises
JSONparse(ts) ==
  LET r == ParseValue(ts)
  IN  IF r.ok /\ r.rest = <<>> THEN r ELSE Fail

\* ------------------------------------------------- the span and its repair
\* raw.match(/\[[\s\S]*\]/): from the first '[' to the last ']' after it;
\* the empty sequence stands for null
Positions(ts, t) == {i \in 1..Len(ts) : ts[i].t = t}

Min(S) == CHOOSE x \in S : \A y \in S : x <= y

Max(S) == CHOOSE x \in S : \A y \in S : x >= y

arrayMatch(raw) ==
  LET opens == Positions(raw, "[")
      closes == {i \in Positions(raw, "]") : opens # {} /\ i > Min(opens)}
  IN  IF opens = {} \/ closes = {} THEN <<>>
      ELSE SubSeq(raw, Min(opens), Max(closes))

\* base.replace(/([{,]\s*)([A-Za-z0-9_]+)\s*:/g, '$1"$2":'): a word between
\* '{' or ',' and ':' gets double quotes
sanitizedKeys(ts) ==
  [i \in 1..Len(ts) |->
     IF /\ ts[i].t = "word"
        /\ i > 1 /\ ts[i - 1].t \in {"{", ","}
        /\ i < Len(ts) /\ ts[i + 1].t = ":"
     THEN StrTok("dq", Plain(ts[i].v))
     ELSE ts[i]]

\* replace(/'([^']*)'/g, ...): a single-quoted string gets double quotes
sanitizedValues(ts) ==
  [i \in 1..Len(ts) |->
     IF ts[i].t = "str" /\ ts[i].q = "sq" THEN StrTok("dq", ts[i].v) ELSE ts[i]]

\* replace(/,\s*([}\]])/g, '$1'): a comma before '}' or ']' is removed
RECURSIVE sanitizedTrailingCommas(_)
sanitizedTrailingCommas(ts) ==
  IF ts = <<>> THEN <<>>
  ELSE IF Head(ts).t = "," /\ Len(ts) > 1 /\ ts[2].t \in {"}", "]"}
       THEN sanitizedTrailingCommas(Tail(ts))
       ELSE <<Head(ts)>> \o sanitizedTrailingCommas(Tail(ts))

\* the Set of candidates in the order of insertion
candidates(base) ==
  LET repaired == sanitizedTrailingCommas(sanitizedValues(sanitizedKeys(base)))
  IN  IF repaired = base
      THEN <<[name |-> "raw", tokens |-> base]>>
      ELSE <<[name |-> "raw", tokens |-> base], [name |-> "repaired", tokens |-> repaired]>>

\* ------------------------------------------------------ items to questions
\* item.<key> (the last member of that name)
Get(item, k) ==
  IF item.t # "obj" THEN Undefined
  ELSE LET at == {i \in 1..Len(item.fields) : item.fields[i].key = k}
       IN  IF at = {} THEN Undefined ELSE item.fields[Max(at)].val

\* typeof item === 'object' && item !== null
IsObject(item) == item.t \in {"obj", "arr"}

\* typeof option === 'string' && option.trim().length > 0
Usable(option) == option.t = "str" /\ TextLength(trimText(option.v)) > 0

optionsOf(item) ==
  LET o == Get(item, "options")
      kept == IF o.t = "arr" THEN SelectSeq(o.items, Usable) ELSE <<>>
  IN  [i \in 1..Len(kept) |-> trimText(kept[i].v)]

questionOf(item) ==
  LET q == Get(item, "question")
  IN  IF q.t = "str" THEN trimText(q.v) ELSE Plain("")

\* Math.floor, in tenths
Floor(n) == (n \div 10) * 10

\* Math.max(0, Math.min(options.length - 1, Math.floor(numericAnswer))), or 0
\* when the answer is no number or not finite; in tenths
normalizedAnswer_NoClamp(item, options) ==
  LET a == Get(item, "correct_answer")
  IN  IF a.t = "num" /\ a.finite THEN Floor(a.v) ELSE 0

normalizedAnswer(item, options) ==
  LET a == Get(item, "correct_answer")
      numericAnswer == IF a.t = "num" THEN a ELSE Num(0)
  IN  IF numericAnswer.finite
      THEN Max({0, Min({(Len(options) - 1) * 10, Floor(numericAnswer.v)})})
      ELSE 0

QuizQuestion(item) ==
  [question |-> questionOf(item),
   options |-> optionsOf(item),
   correct_answer |-> normalizedAnswer(item, optionsOf(item))]

\* .filter((item) => item.question.length > 0 && item.options.length === 4)
Complete_AnyOptions(q) == TextLength(q.question) > 0

Complete(q) == TextLength(q.question) > 0 /\ Len(q.options) = 4

questionsOf(parsed) ==
  LET objects == SelectSeq(parsed.items, IsObject)
  IN  SelectSeq([i \in 1..Len(objects) |-> QuizQuestion(objects[i])], Complete)

\* questions.slice(0, expected > 0 ? expected : questions.length)
capped(questions, expected) ==
  SubSeq(questions, 1, IF expected > 0 /\ expected < Len(questions)
                       THEN expected ELSE Len(questions))

\* how a call of parseQuizBatch ends
Returned(questions, tried) ==
  [outcome |-> "returned", questions |-> questions, tried |-> tried]

Threw(tried) ==
  [outcome |-> "threw", questions |-> <<>>, tried |-> tried]

\* catch { /* Try next candidate */ }: r is what the rest of the loop gives
caught_Rethrows(r, tried) == Threw(tried)

caught(r, tried) == r

\* the loop over the candidates; tried lists the candidates parsed so far
RECURSIVE tryCandidates(_, _, _)
tryCandidates(cs, expected, tried) ==
  IF cs = <<>> THEN Returned(<<>>, tried)
  ELSE LET now == Append(tried, Head(cs).name)
           next == tryCandidates(Tail(cs), expected, now)
           parsed == JSONparse(Head(cs).tokens)
       IN  IF ~parsed.ok THEN caught(next, now)
           ELSE IF parsed.val.t # "arr" THEN next
           ELSE IF questionsOf(parsed.val) # <<>>
                THEN Returned(capped(questionsOf(parsed.val), expected), now)
                ELSE next

parseQuizBatch(raw, expected) ==
  IF arrayMatch(raw) = <<>> THEN Returned(<<>>, <<>>)
  ELSE tryCandidates(candidates(arrayMatch(raw)), expected, <<>>)

\* ------------------------------------------------------------ the responses
\* The responses under study are written from a description: the kinds of the
\* items, the value given as correct_answer, and the form of the text.
ItemKinds == {"good", "padded", "noOptions", "threeOptions", "blankQuestion", "notObject"}

\* a missing correct_answer, -1, 2, 7, 2.5, a number that is not finite, "2"
Answers == {Undefined, Num(-10), Num(20), Num(70), Num(25), Infinite, StrVal(Plain("2"))}

Forms == {"strict", "prose", "relaxed", "trailing", "bare", "broken"}

\* the question of the item at position i (at most 8 facts are sent, so at
\* most 8 questions are asked for)
QuestionNames == <<"Q1", "Q2", "Q3", "Q4", "Q5", "Q6", "Q7", "Q8">>

FourOptions == <<Plain("a"), Plain("b"), Plain("c"), Plain("d")>>

StrVals(texts) == [i \in 1..Len(texts) |-> StrVal(texts[i])]

WithAnswer(fields, a) ==
  IF a.t = "undefined" THEN fields ELSE Append(fields, Member("correct_answer", a))

ItemJson(kind, i, a) ==
  CASE kind = "good" ->
         Obj(WithAnswer(<<Member("question", StrVal(Plain(QuestionNames[i]))),
                          Member("options", Arr(StrVals(FourOptions)))>>, a))
    [] kind = "padded" ->
         Obj(WithAnswer(<<Member("options",
                                 Arr(<<StrVal(Text(1, "a", 1)), StrVal(Plain("b")),
                                       StrVal(Text(2, "", 0)), Num(10),
                                       StrVal(Plain("c")), StrVal(Text(0, "d", 1))>>)),
                          Member("question", StrVal(Text(1, QuestionNames[i], 1)))>>, a))
    [] kind = "noOptions" ->
         Obj(WithAnswer(<<Member("question", StrVal(Plain(QuestionNames[i])))>>, a))
    [] kind = "threeOptions" ->
         Obj(WithAnswer(<<Member("question", StrVal(Plain(QuestionNames[i]))),
                          Member("options", Arr(StrVals(SubSeq(FourOptions, 1, 3))))>>, a))
    [] kind = "blankQuestion" ->
         Obj(WithAnswer(<<Member("question", StrVal(Text(1, "", 0))),
                          Member("options", Arr(StrVals(FourOptions)))>>, a))
    [] kind = "notObject" -> Num(70)

\* how a value is written: keys with double quotes or bare, strings with
\* double or single quotes, with or without a comma after the last element
Style(k, q, c) == [keys |-> k, quotes |-> q, trailing |-> c]

Strict == Style("dq", "dq", FALSE)

Relaxed == Style("word", "sq", FALSE)

Trailing == Style("dq", "dq", TRUE)

RECURSIVE Write(_, _), WriteElements(_, _), WriteMembers(_, _)
Write(v, st) ==
  CASE v.t = "str" -> <<StrTok(st.quotes, v.v)>>
    [] v.t = "num" -> <<NumTok(v)>>
    [] v.t = "lit" -> <<WordTok(v.v)>>
    [] v.t = "arr" -> <<Tok("[")>> \o WriteElements(v.items, st) \o <<Tok("]")>>
    [] v.t = "obj" -> <<Tok("{")>> \o WriteMembers(v.fields, st) \o <<Tok("}")>>

WriteElements(items, st) ==
  IF items = <<>> THEN <<>>
  ELSE Write(Head(items), st)
         \o (IF Len(items) > 1 \/ st.trailing THEN <<Tok(",")>> ELSE <<>>)
         \o WriteElements(Tail(items), st)

WriteMembers(fields, st) ==
  IF fields = <<>> THEN <<>>
  ELSE <<IF st.keys = "dq" THEN StrTok("dq", Plain(Head(fields).key))
                           ELSE WordTok(Head(fields).key),
         Tok(":")>>
         \o Write(Head(fields).val, st)
         \o (IF Len(fields) > 1 \/ st.trailing THEN <<Tok(",")>> ELSE <<>>)
         \o WriteMembers(Tail(fields), st)

Items(d) == [i \in 1..Len(d.items) |-> ItemJson(d.items[i], i, d.answer)]

\* the response of a description
Response(d) ==
  CASE d.form = "strict" -> Write(Arr(Items(d)), Strict)
    [] d.form = "prose" -> <<Prose>> \o Write(Arr(Items(d)), Strict) \o <<Prose>>
    [] d.form = "relaxed" -> <<Prose>> \o Write(Arr(Items(d)), Relaxed) \o <<Prose>>
    [] d.form = "trailing" -> Write(Arr(Items(d)), Trailing)
    [] d.form = "bare" -> <<Prose>> \o WriteElements(Items(d), Relaxed) \o <<Prose>>
    [] d.form = "broken" -> Write(Arr(Items(d)), Strict) \o <<Prose, Tok("]")>>

\* the kinds of the items of the long responses
LongKinds == {"good", "padded", "noOptions", "threeOptions"}

ItemSeqs(kinds, n) == UNION {[1..k -> kinds] : k \in 0..n}

\* up to MaxItems items in strict form with the answer 2; up to MaxVaried
\* items in every form with every answer
Descriptions ==
  {[items |-> s, form |-> "strict", answer |-> Num(20)] : s \in ItemSeqs(LongKinds, MaxItems)}
    \cup {[items |-> s, form |-> f, answer |-> a] :
            s \in ItemSeqs(ItemKinds, MaxVaried), f \in Forms, a \in Answers}

QuizInit ==
  /\ ServiceUnused
  /\ input \in {[kind |-> "quiz", d |-> d, raw |-> Response(d)] : d \in Descriptions}
  /\ output = NoValue

\* generateQuizQuestions hands the response and the number of facts sent,
\* which is at least 1, to parseQuizBatch
ParseQuiz(expected) ==
  /\ input.kind = "quiz"
  /\ output = NoValue
  /\ LET r == parseQuizBatch(input.raw, expected)
     IN  output' = [kind |-> "quiz", expected |-> expected, outcome |-> r.outcome,
                    questions |-> r.questions, tried |-> r.tried]
  /\ UNCHANGED <<input, ServiceVars>>

QuizNext == \E expected \in 1..MaxExpected : ParseQuiz(expected)

QuizSpec == QuizInit /\ [][QuizNext]_vars

\* ================================================== analyzeUserPreference()
MaxSwipes == 3

\* the interactions, given by the number of swipes in each direction
\* ('right', 'left', and any other, such as 'up')
InteractionLists ==
  {[kind |-> "interactions", right |-> r, left |-> l, other |-> o] :
     r \in 0..MaxSwipes, l \in 0..MaxSwipes, o \in 0..1}

Analysis(p, d, n, s) ==
  [preferred_topics |-> p, disliked_topics |-> d, neutral_topics |-> n, overall_scores |-> s]

EmptyAnalysis == Analysis(<<>>, <<>>, <<>>, {})

\* an analysis the model wrote (any object the response holds is returned)
ModelAnalysis == Analysis(<<"topic1">>, <<"topic3">>, <<"topic4">>, {<<"topic1", 80>>})

\* an object the model wrote that is no analysis, such as {"answer": "unknown"}
OtherObject == [answer |-> "unknown"]

\* toFixed(2) cut off instead of rounded
Hundredths_Truncates(a, b) == (100 * a) \div b

\* Number(x.toFixed(2)) of the quotient a / b (b > 0), in hundredths: toFixed
\* rounds the magnitude to the nearest hundredth, a tie upwards, and puts the
\* sign back
Hundredths(a, b) ==
  IF a >= 0 THEN (200 * a + b) \div (2 * b) ELSE 0 - ((200 * (0 - a) + b) \div (2 * b))

\* baselineAnalysis() without the case of no interactions
baselineAnalysis_NoEmptyCase(in) ==
  LET denominator == IF in.right + in.left = 0 THEN 1 ELSE in.right + in.left
  IN  Analysis(IF 10 * in.right > 6 * denominator THEN <<"general">> ELSE <<>>,
               IF 10 * in.right < 4 * denominator THEN <<"general">> ELSE <<>>,
               <<>>,
               {<<"general", Hundredths(2 * in.right - denominator, denominator)>>})

\* baselineAnalysis(): preferenceRatio is rightSwipes / denominator
baselineAnalysis(in) ==
  LET denominator == IF in.right + in.left = 0 THEN 1 ELSE in.right + in.left
  IN  IF in.right + in.left + in.other = 0 THEN EmptyAnalysis
      ELSE Analysis(IF 10 * in.right > 6 * denominator THEN <<"general">> ELSE <<>>,
                    IF 10 * in.right < 4 * denominator THEN <<"general">> ELSE <<>>,
                    <<>>,
                    {<<"general", Hundredths(2 * in.right - denominator, denominator)>>})

\* the result of the analysis of caller c
Result(c, a) == [output EXCEPT !.of[c] = a]

PrefInit ==
  /\ input \in InteractionLists
  /\ output = [kind |-> "analyses", of |-> [c \in Procs |-> NoValue]]
  /\ backendPresent \in BOOLEAN
  /\ lm = NoHandle
  /\ initialized = FALSE
  /\ initializing = FALSE
  /\ fallbackEnabled = FALSE
  /\ lastDownloadPercent = NoPercent
  /\ nextHandle = 0
  /\ released = {}
  /\ calls = 0
  /\ call = [c \in Procs |-> Frame("none", 0, FALSE)]

\* a caller calls analyzeUserPreference(interactions): ensureInitialized()
\* calls initialize() unless initialized
CallAnalyze(c) ==
  /\ Idle(c)
  /\ calls < MaxCalls
  /\ calls' = calls + 1
  /\ LET f == [Frame("analyze", 0, fallbackEnabled) EXCEPT !.pc = "called"]
     IN  IF initialized
         THEN /\ call' = [call EXCEPT ![c] = [f EXCEPT !.pc = "ensured"]]
              /\ UNCHANGED <<service, lastDownloadPercent, nextHandle>>
         ELSE initialize(c, f)
  /\ output' = Result(c, NoValue)
  /\ UNCHANGED <<input, backendPresent, released>>

\* after `await this.ensureInitialized()`: the baseline in fallback mode,
\* without a handle, or without interactions; else the completion call
AnalyzeStart(c) ==
  /\ call[c].pc = "ensured"
  /\ call[c].op = "analyze"
  /\ IF fallbackEnabled \/ lm = NoHandle
     THEN /\ call' = [call EXCEPT ![c] =
                        [@ EXCEPT !.mode = "fallback", !.pc = "done", !.outcome = "returned"]]
          /\ output' = Result(c, baselineAnalysis(input))
     ELSE IF input.right + input.left + input.other = 0
     THEN /\ call' = [call EXCEPT ![c] =
                        [@ EXCEPT !.mode = "model", !.pc = "done", !.outcome = "returned"]]
          /\ output' = Result(c, baselineAnalysis(input))
     ELSE /\ call' = [call EXCEPT ![c] = [@ EXCEPT !.mode = "model", !.pc = "complete"]]
          /\ output' = output
  /\ UNCHANGED <<input, backendPresent, service, lastDownloadPercent, nextHandle, released, calls>>

\* what the catch around runCompletion returns
onCompletionError(in) == EmptyAnalysis

\* the completion call fails
AnalyzeCompletionFails(c) ==
  /\ call[c].pc = "complete"
  /\ call[c].op = "analyze"
  /\ call' = [call EXCEPT ![c] =
                [@ EXCEPT !.resp = <<Resp("fail", 0)>>, !.pc = "done", !.outcome = "returned"]]
  /\ output' = Result(c, onCompletionError(input))
  /\ UNCHANGED <<input, backendPresent, service, lastDownloadPercent, nextHandle, released, calls>>

\* the ways a response can be read: it holds an analysis JSON.parse accepts
\* ("json"), another object JSON.parse accepts ("otherjson"), braces around
\* text JSON.parse rejects ("badjson"), no braces ("nojson"), or it is no
\* string ("noresponse", response.match raises)
ResponseKinds == {"json", "otherjson", "badjson", "nojson", "noresponse"}

\* what the code after the completion call returns for a response: the parsed
\* object as it is (`return analysis as PreferenceAnalysis`), else the baseline
afterResponse(kind, in) ==
  IF kind = "json" THEN ModelAnalysis
  ELSE IF kind = "otherjson" THEN OtherObject
  ELSE baselineAnalysis(in)

\* the completion call succeeds with a response of the given kind
AnalyzeCompletionSucceeds(c, kind) ==
  /\ call[c].pc = "complete"
  /\ call[c].op = "analyze"
  /\ call' = [call EXCEPT ![c] =
                [@ EXCEPT !.resp = <<Resp(kind, 0)>>, !.pc = "done", !.outcome = "returned"]]
  /\ output' = Result(c, afterResponse(kind, input))
  /\ UNCHANGED <<input, backendPresent, service, lastDownloadPercent, nextHandle, released, calls>>

PrefNext ==
  \E c \in Procs :
    \/ CallAnalyze(c)
    \/ CallInitialize(c)
    \/ Poll(c)
    \/ DownloadSucceeds(c)
    \/ DownloadFails(c)
    \/ InitSucceeds(c)
    \/ InitFails(c)
    \/ AnalyzeStart(c)
    \/ AnalyzeCompletionFails(c)
    \/ \E kind \in ResponseKinds : AnalyzeCompletionSucceeds(c, kind)

PrefSpec == PrefInit /\ [][PrefNext]_vars

\* ================================================== generateQuizQuestions()
MaxPromptFacts == 8

\* factContents is given by its length: no fact, one, as many as are sent at
\* most, and one more
FactCounts == {0, 1, MaxPromptFacts, MaxPromptFacts + 1}

\* factContents.slice(0, 8) without the limit
limitedFacts_All(n) == n

\* limitedFacts.length for n facts: factContents.slice(0, 8)
limitedFacts(n) == IF n < MaxPromptFacts THEN n ELSE MaxPromptFacts

\* the responses of the backend to the quiz prompt: no item, one item
\* (complete or without options) or two complete items, as strict JSON or
\* followed by text that breaks it (they hold no <think> tag and no outer
\* whitespace, so stripThinkingBlocks returns them as they are)
QuizResponses ==
  {Response([items |-> s, form |-> f, answer |-> Num(20)]) :
     s \in ItemSeqs({"good", "noOptions"}, 1) \cup {<<"good", "good">>},
     f \in {"strict", "broken"}}

\* success without a response string: stripThinkingBlocks returns it as it is
\* and raw.match raises in parseQuizBatch
NoResponse == <<Tok("undefined")>>

\* the state of the calls of generateQuizQuestions and destroy under study:
\* what each caller's call returned, the completion calls it issued (each by
\* the number of facts in its prompt), and the callers whose destroy() caught
\* an error of the backend's destroy
Quizzes(of, sent, logged) ==
  [kind |-> "quizzes", of |-> of, sent |-> sent, caught |-> logged]

GenerateInit ==
  /\ input \in {[kind |-> "facts", count |-> n] : n \in FactCounts}
  /\ output = Quizzes([c \in Procs |-> NoValue], [c \in Procs |-> <<>>], {})
  /\ backendPresent \in BOOLEAN
  /\ lm = NoHandle
  /\ initialized = FALSE
  /\ initializing = FALSE
  /\ fallbackEnabled = FALSE
  /\ lastDownloadPercent = NoPercent
  /\ nextHandle = 0
  /\ released = {}
  /\ calls = 0
  /\ call = [c \in Procs |-> Frame("none", 0, FALSE)]

\* a caller calls generateQuizQuestions(topic, factContents):
\* ensureInitialized() calls initialize() unless initialized
CallGenerate(c) ==
  /\ Idle(c)
  /\ calls < MaxCalls
  /\ calls' = calls + 1
  /\ LET f == [Frame("quiz", input.count, fallbackEnabled) EXCEPT !.pc = "called"]
     IN  IF initialized
         THEN /\ call' = [call EXCEPT ![c] = [f EXCEPT !.pc = "ensured"]]
              /\ UNCHANGED <<service, lastDownloadPercent, nextHandle>>
         ELSE initialize(c, f)
  /\ output' = [output EXCEPT !.of[c] = NoValue, !.sent[c] = <<>>]
  /\ UNCHANGED <<input, backendPresent, released>>

\* after `await this.ensureInitialized()`: the empty list in fallback mode,
\* without a handle, or without facts; else runCompletion is called, which
\* finds the handle and invokes this.lm.complete before its first await
GenerateStart(c) ==
  /\ call[c].pc = "ensured"
  /\ call[c].op = "quiz"
  /\ IF fallbackEnabled \/ lm = NoHandle \/ input.count = 0
     THEN /\ call' = [call EXCEPT ![c] =
                        [@ EXCEPT !.mode = "fallback", !.pc = "done", !.outcome = "returned"]]
          /\ output' = [output EXCEPT !.of[c] = <<>>]
     ELSE /\ call' = [call EXCEPT ![c] = [@ EXCEPT !.mode = "model", !.pc = "complete"]]
          /\ output' = [output EXCEPT !.sent[c] = Append(@, limitedFacts(input.count))]
  /\ UNCHANGED <<input, backendPresent, service, lastDownloadPercent, nextHandle, released, calls>>

\* the catch of generateQuizQuestions without its `return []`
generateCatch_Rethrows(f) == [f EXCEPT !.pc = "done", !.outcome = "threw"]

\* catch (error) { console.warn(...); return []; }
generateCatch(f) == [f EXCEPT !.pc = "done", !.outcome = "returned"]

\* the completion call fails: complete() rejects or reports success = false,
\* and runCompletion raises
GenerateCompletionFails(c) ==
  /\ call[c].pc = "complete"
  /\ call[c].op = "quiz"
  /\ call' = [call EXCEPT ![c] = generateCatch([@ EXCEPT !.resp = <<Resp("fail", 0)>>])]
  /\ output' = [output EXCEPT !.of[c] = <<>>]
  /\ UNCHANGED <<input, backendPresent, service, lastDownloadPercent, nextHandle, released, calls>>

\* the completion call succeeds with the response raw, which is handed to
\* parseQuizBatch with limitedFacts.length
GenerateCompletionSucceeds(c, raw) ==
  /\ call[c].pc = "complete"
  /\ call[c].op = "quiz"
  /\ LET sentFacts == output.sent[c][Len(output.sent[c])]
         parsed == IF raw = NoResponse THEN Threw(<<>>) ELSE parseQuizBatch(raw, sentFacts)
         f == [call[c] EXCEPT !.resp = <<Resp(IF raw = NoResponse THEN "noresponse" ELSE "ok",
                                               Len(parsed.questions))>>]
     IN  IF parsed.outcome = "threw"
         THEN /\ call' = [call EXCEPT ![c] = generateCatch(f)]
              /\ output' = [output EXCEPT !.of[c] = <<>>]
         ELSE /\ call' = [call EXCEPT ![c] = [f EXCEPT !.pc = "done", !.outcome = "returned"]]
              /\ output' = [output EXCEPT !.of[c] = parsed.questions]
  /\ UNCHANGED <<input, backendPresent, service, lastDownloadPercent, nextHandle, released, calls>>

\* the catch of destroy() without the catch: the error reaches the caller
\* and the two assignments after the try are not made
destroyCaught_Propagates(c) ==
  /\ call' = [call EXCEPT ![c].pc = "done", ![c].outcome = "threw"]
  /\ UNCHANGED <<lm, initialized>>

\* catch (error) { console.error(...) }, then this.lm = null;
\* this.initialized = false
destroyCaught(c) ==
  /\ call' = [call EXCEPT ![c].pc = "done", ![c].outcome = "returned"]
  /\ DestroyReset

\* the backend's destroy rejects
DestroyRejects(c) ==
  /\ call[c].pc = "destroy"
  /\ destroyCaught(c)
  /\ output' = [output EXCEPT !.caught = @ \cup {c}]
  /\ UNCHANGED <<input, backendPresent, initializing, fallbackEnabled, lastDownloadPercent,
                 nextHandle, released, calls>>

GenerateNext ==
  \E c \in Procs :
    \/ CallGenerate(c)
    \/ CallInitialize(c)
    \/ Poll(c)
    \/ DownloadSucceeds(c)
    \/ DownloadFails(c)
    \/ InitSucceeds(c)
    \/ InitFails(c)
    \/ CallDestroy(c)
    \/ DestroyEnds(c)
    \/ DestroyRejects(c)
    \/ GenerateStart(c)
    \/ GenerateCompletionFails(c)
    \/ \E raw \in QuizResponses \cup {NoResponse} : GenerateCompletionSucceeds(c, raw)

GenerateSpec == GenerateInit /\ [][GenerateNext]_vars

\* ===================================================== the model download
MaxReports == 3

\* the progress values the backend reports during the download, in order
ReportLists ==
  {[kind |-> "reports", reports |-> r] :
     r \in UNION {[1..n -> ProgressValues] : n \in 0..MaxReports}}

DownloadInit ==
  /\ input \in ReportLists
  /\ output = [kind |-> "download", next |-> 1]
  /\ backendPresent = TRUE
  /\ lm = NoHandle
  /\ initialized = FALSE
  /\ initializing = FALSE
  /\ fallbackEnabled = FALSE
  /\ lastDownloadPercent = NoPercent
  /\ nextHandle = 0
  /\ released = {}
  /\ calls = 0
  /\ call = [c \in Procs |-> Frame("none", 0, FALSE)]

\* the backend invokes the onProgress callback with its next progress value
ReportProgress(c) ==
  /\ call[c].pc = "download"
  /\ output.next <= Len(input.reports)
  /\ output' = [output EXCEPT !.next = @ + 1]
  /\ LET progress == input.reports[output.next]
     IN  IF progress = NonFinite \/ lastDownloadPercent = Percent(progress)
         THEN UNCHANGED <<lastDownloadPercent, call>>
         ELSE /\ lastDownloadPercent' = Percent(progress)
              /\ call' = [call EXCEPT ![c] = emitProgress(call[c], <<DownloadEv(progress)>>)]
  /\ UNCHANGED <<input, backendPresent, service, nextHandle, released, calls>>

DownloadNext ==
  \E c \in Procs :
    \/ CallInitialize(c)
    \/ Poll(c)
    \/ ReportProgress(c)
    \/ DownloadSucceeds(c)
    \/ DownloadFails(c)
    \/ InitSucceeds(c)
    \/ InitFails(c)

DownloadSpec == DownloadInit /\ [][DownloadNext]_vars

\* ================================================ the progress listeners
MaxListeners == 2
MaxSubscriptions == 2
MaxEvents == 2

\* the listener functions callers subscribe
Listeners == 1..MaxListeners

\* the unsubscribe function of a subscription has not ended it
NoEnd == -1

\* progressListeners.add(listener) with one entry per call, as a list would
\* keep them
add_Twice(ls, l) == Append(ls, l)

\* progressListeners.add(listener): a Set in insertion order, a listener
\* already in it is not added again
add(ls, l) == IF \E i \in 1..Len(ls) : ls[i] = l THEN ls ELSE Append(ls, l)

\* progressListeners.delete(listener)
delete(ls, l) == SelectSeq(ls, LAMBDA x : x # l)

\* how a call of emitProgress ends: the listeners invoked, in order, those
\* whose error was logged, and whether it returned
Notified(invoked, logged, outcome) ==
  [invoked |-> invoked, logged |-> logged, outcome |-> outcome]

\* the forEach of emitProgress without the try/catch: the first listener that
\* throws ends the loop and the error reaches the emitting stage
RECURSIVE notify_Unguarded(_, _)
notify_Unguarded(ls, failing) ==
  IF ls = <<>> THEN Notified(<<>>, {}, "returned")
  ELSE IF Head(ls) \in failing THEN Notified(<<Head(ls)>>, {}, "threw")
  ELSE LET r == notify_Unguarded(Tail(ls), failing)
       IN  Notified(<<Head(ls)>> \o r.invoked, r.logged, r.outcome)

\* this.progressListeners.forEach((listener) => { try { listener(event) }
\* catch (error) { console.error(...) } }), failing being the listeners that
\* throw
RECURSIVE notify(_, _)
notify(ls, failing) ==
  IF ls = <<>> THEN Notified(<<>>, {}, "returned")
  ELSE LET r == notify(Tail(ls), failing)
       IN  Notified(<<Head(ls)>> \o r.invoked,
                    IF Head(ls) \in failing THEN r.logged \cup {Head(ls)} ELSE r.logged,
                    r.outcome)

\* A subscription: its listener, the number of events emitted before it, the
\* number emitted when its listener was deleted from progressListeners (by
\* any unsubscribe function for that listener), and whether its own
\* unsubscribe function has been called.
Subscription(l, from) == [listener |-> l, from |-> from, to |-> NoEnd, own |-> FALSE]

\* the listeners that throw are fixed for a run; a listener does nothing else
\* to the service (it does not subscribe, unsubscribe or emit)
ListenerInit ==
  /\ ServiceUnused
  /\ input \in {[kind |-> "listeners", failing |-> f] : f \in SUBSET Listeners}
  /\ output = [kind |-> "listeners", progressListeners |-> <<>>, subscriptions |-> <<>>,
               received |-> [l \in Listeners |-> <<>>], emitted |-> 0, emit |-> "none",
               logged |-> {}]

\* subscribeProgress(listener)
Subscribe(l) ==
  /\ output.kind = "listeners"
  /\ Len(output.subscriptions) < MaxSubscriptions
  /\ output' = [output EXCEPT
                  !.progressListeners = add(@, l),
                  !.subscriptions = Append(@, Subscription(l, output.emitted))]
  /\ UNCHANGED <<input, ServiceVars>>

\* the function subscription i returned is called (it can be called again)
Unsubscribe(i) ==
  /\ output.kind = "listeners"
  /\ i \in 1..Len(output.subscriptions)
  /\ LET l == output.subscriptions[i].listener
         present == \E k \in 1..Len(output.progressListeners) : output.progressListeners[k] = l
     IN  output' = [output EXCEPT
                      !.progressListeners = delete(@, l),
                      !.subscriptions =
                        [j \in 1..Len(@) |->
                           [@[j] EXCEPT
                              !.to = IF @ = NoEnd /\ output.subscriptions[j].listener = l /\ present
                                     THEN output.emitted ELSE @,
                              !.own = IF j = i THEN TRUE ELSE @]]]
  /\ UNCHANGED <<input, ServiceVars>>

\* a stage calls emitProgress(event); events are numbered in emission order
Emit ==
  /\ output.kind = "listeners"
  /\ output.emitted < MaxEvents
  /\ LET r == notify(output.progressListeners, input.failing)
         n == output.emitted + 1
     IN  output' = [output EXCEPT
                      !.emitted = n,
                      !.emit = r.outcome,
                      !.logged = r.logged,
                      !.received =
                        [l \in Listeners |->
                           @[l] \o [k \in 1..Len(SelectSeq(r.invoked, LAMBDA x : x = l)) |-> n]]]
  /\ UNCHANGED <<input, ServiceVars>>

ListenerNext ==
  \/ \E l \in Listeners : Subscribe(l)
  \/ \E i \in 1..MaxSubscriptions : Unsubscribe(i)
  \/ Emit

ListenerSpec == ListenerInit /\ [][ListenerNext]_vars

\* ============================================================ the brain store
\* The zustand store of brainStore.ts: categories, profile and seenCardIds,
\* kept in `output`; `input` is the last operation called.  A category is its
\* id, name, kind and enabled flag (the source fields of an imported category
\* are carried along unchanged and left out).  Card ids are numbers.  The
\* persistence of the store is not modelled.  A session makes up to MaxCalls
\* calls, counted in `calls`.
MaxImports == 2
MaxNewCards == 2
MAX_ENABLED_CATEGORIES == 5
MaxSeenCards == 200
NotFound == 0

DEFAULT_CATEGORY_DEFINITIONS ==
  << [id |-> "science", name |-> "Science", kind |-> "default", enabled |-> TRUE],
     [id |-> "history", name |-> "History", kind |-> "default", enabled |-> TRUE],
     [id |-> "psychology", name |-> "Psychology", kind |-> "default", enabled |-> TRUE],
     [id |-> "literature", name |-> "Literature", kind |-> "default", enabled |-> TRUE],
     [id |-> "random", name |-> "Curiosities", kind |-> "default", enabled |-> TRUE] >>

createDefaultCategories == DEFAULT_CATEGORY_DEFINITIONS

\* generateCategoryId(): the time and six random digits; the ids of different
\* imports are taken to differ
GeneratedIds == <<"imported-1", "imported-2", "imported-3", "imported-4">>

generateCategoryId(generated) == GeneratedIds[generated + 1]

Ids(categories) == {categories[i].id : i \in 1..Len(categories)}

buildInitialBrainProfile(categoryIds) ==
  [categoryScores |-> [id \in categoryIds |-> 0],
   factsSeen |-> 0, likes |-> 0, dislikes |-> 0, skips |-> 0,
   quizzesAnswered |-> 0, quizzesCorrect |-> 0]

createInitialProfile == buildInitialBrainProfile(Ids(DEFAULT_CATEGORY_DEFINITIONS))

cloneCategories(categories) ==
  IF Len(categories) > 0 THEN categories ELSE createDefaultCategories

getEnabledCount(categories) ==
  Cardinality({i \in 1..Len(categories) : categories[i].enabled})

\* categories.findIndex(category => category.id === id), NotFound for -1
findIndex(categories, id) ==
  IF \E i \in 1..Len(categories) : categories[i].id = id
  THEN CHOOSE i \in 1..Len(categories) :
         /\ categories[i].id = id
         /\ \A j \in 1..(i - 1) : categories[j].id # id
  ELSE NotFound

\* the defaults with the enabled flag of the last category of their id, then
\* the imported categories
mergeWithDefaultCategories(categories) ==
  LET has(id) == \E i \in 1..Len(categories) : categories[i].id = id
      current(id) == categories[CHOOSE i \in 1..Len(categories) :
                                  /\ categories[i].id = id
                                  /\ \A j \in (i + 1)..Len(categories) : categories[j].id # id]
      defaults == [k \in 1..Len(DEFAULT_CATEGORY_DEFINITIONS) |->
                     LET definition == DEFAULT_CATEGORY_DEFINITIONS[k]
                     IN  [definition EXCEPT
                            !.enabled = IF has(definition.id)
                                        THEN current(definition.id).enabled ELSE @]]
      imported == SelectSeq(categories, LAMBDA category : category.kind = "imported")
  IN  defaults \o imported

\* a score of 0 for every category without one, no score for any other id
syncProfileWithCategories(profile, categories) ==
  [profile EXCEPT
     !.categoryScores = [id \in Ids(categories) |->
                           IF id \in DOMAIN profile.categoryScores
                           THEN profile.categoryScores[id] ELSE 0]]

ensureScoreKey(profile, categoryId) ==
  [profile EXCEPT
     !.categoryScores = [id \in DOMAIN profile.categoryScores \cup {categoryId} |->
                           IF id \in DOMAIN profile.categoryScores
                           THEN profile.categoryScores[id] ELSE 0]]

\* delete profile.categoryScores[id]
deleteScore(profile, id) ==
  [profile EXCEPT
     !.categoryScores = [k \in DOMAIN profile.categoryScores \ {id} |->
                           profile.categoryScores[k]]]

FactActions == {"like", "dislike", "skip"}

recordFactInteraction(state, category, action) ==
  LET profile == ensureScoreKey(state.profile, category)
  IN  [state EXCEPT
         !.profile =
           [profile EXCEPT
              !.factsSeen = @ + 1,
              !.likes = IF action = "like" THEN @ + 1 ELSE @,
              !.dislikes = IF action = "dislike" THEN @ + 1 ELSE @,
              !.skips = IF action = "skip" THEN @ + 1 ELSE @,
              !.categoryScores[category] =
                 IF action = "like" THEN @ + 1
                 ELSE IF action = "dislike" THEN @ - 1 ELSE @]]

recordQuizResult(state, category, correct) ==
  LET profile == ensureScoreKey(state.profile, category)
  IN  [state EXCEPT
         !.profile =
           [profile EXCEPT
              !.quizzesAnswered = @ + 1,
              !.quizzesCorrect = IF correct THEN @ + 1 ELSE @,
              !.categoryScores[category] = IF correct THEN @ + 1 ELSE @ - 1]]

includes(ids, id) == \E i \in 1..Len(ids) : ids[i] = id

truncated_All(next) == next

\* next.length > 200 ? next.slice(next.length - 200) : next
truncated(next) ==
  IF Len(next) > MaxSeenCards
  THEN SubSeq(next, Len(next) - MaxSeenCards + 1, Len(next))
  ELSE next

addSeenCard(state, id) ==
  IF includes(state.seenCardIds, id) THEN state
  ELSE [state EXCEPT !.seenCardIds = truncated(Append(state.seenCardIds, id))]

clearSeenCards(state) == [state EXCEPT !.seenCardIds = <<>>]

resetAll(state) ==
  [state EXCEPT
     !.profile = buildInitialBrainProfile(Ids(createDefaultCategories)),
     !.categories = createDefaultCategories,
     !.seenCardIds = <<>>]

ensureDefaultCategories(state) ==
  LET categories == mergeWithDefaultCategories(state.categories)
  IN  [state EXCEPT
         !.categories = categories,
         !.profile = syncProfileWithCategories(state.profile, categories)]

NoReason == "none"
CeilingReason == "You can only have 5 active categories."

shouldEnable_Always(enabledCount) == TRUE

shouldEnable(enabledCount) == enabledCount < MAX_ENABLED_CATEGORIES

importCategory(state, name) ==
  LET categories == cloneCategories(state.categories)
      enabled == shouldEnable(getEnabledCount(categories))
      newCategory == [id |-> generateCategoryId(state.generated), name |-> name,
                      kind |-> "imported", enabled |-> enabled]
      nextCategories == Append(categories, newCategory)
  IN  [state EXCEPT
         !.categories = nextCategories,
         !.profile = syncProfileWithCategories(state.profile, nextCategories),
         !.generated = @ + 1,
         !.result = [success |-> TRUE, enabled |-> enabled,
                     reason |-> IF enabled THEN NoReason ELSE CeilingReason]]

toggleCategoryEnabled(state, id, enabled) ==
  LET categories == cloneCategories(state.categories)
      index == findIndex(categories, id)
  IN  IF index = NotFound
      THEN [state EXCEPT !.result = [success |-> FALSE, reason |-> "Category not found."]]
      ELSE IF categories[index].enabled = enabled
      THEN [state EXCEPT !.result = [success |-> TRUE, reason |-> NoReason]]
      ELSE IF enabled /\ getEnabledCount(categories) >= MAX_ENABLED_CATEGORIES
      THEN [state EXCEPT !.result = [success |-> FALSE, reason |-> CeilingReason]]
      ELSE LET toggled == [categories EXCEPT ![index].enabled = enabled]
           IN  [state EXCEPT
                  !.categories = toggled,
                  !.profile = syncProfileWithCategories(state.profile, toggled),
                  !.result = [success |-> TRUE, reason |-> NoReason]]

\* the names an import or a rename is called with, and name.trim() of each
NameInputs == {" Notes ", " "}

trimName(name) ==
  CASE name = " Notes " -> "Notes"
    [] name = " " -> ""
    [] OTHER -> name

isDefault_Never(category) == FALSE

\* category.kind === CategoryKind.Default
isDefault(category) == category.kind = "default"

renameCategory(state, id, name) ==
  LET categories == cloneCategories(state.categories)
      index == findIndex(categories, id)
  IN  IF index = NotFound THEN state
      ELSE IF isDefault(categories[index]) THEN state
      ELSE [state EXCEPT
              !.categories =
                 [categories EXCEPT
                    ![index].name = IF trimName(name) # "" THEN trimName(name) ELSE @]]

deleteCategory(state, id) ==
  LET categories == cloneCategories(state.categories)
      index == findIndex(categories, id)
  IN  IF index = NotFound THEN state
      ELSE IF isDefault(categories[index]) THEN state
      ELSE [state EXCEPT
              !.categories = [i \in 1..(Len(categories) - 1) |->
                                IF i < index THEN categories[i] ELSE categories[i + 1]],
              !.profile = deleteScore(state.profile, id)]

\* the ids the operations are called with: the defaults, the ids generated so
\* far (of categories that exist or were deleted) and an id that never existed
CalledIds(state) ==
  Ids(DEFAULT_CATEGORY_DEFINITIONS)
    \cup {GeneratedIds[k] : k \in 1..state.generated} \cup {"unknown"}

\* the ids of the cards: one that is seen in every stored list, and new ones
CardIds == {1} \cup ((MaxSeenCards + 1)..(MaxSeenCards + MaxNewCards))

\* the lists of seen cards a session starts with: the cards 1..n of earlier
\* sessions, one short of the limit and at the limit
SeenLists == {[i \in 1..n |-> i] : n \in {MaxSeenCards - 1, MaxSeenCards}}

NoResult == [success |-> TRUE, reason |-> NoReason]

Op(name, id, arg) == [kind |-> "op", op |-> name, id |-> id, arg |-> arg]

StoreInit ==
  /\ ServiceUnused
  /\ input = Op("create", "none", "none")
  /\ \E seen \in SeenLists :
       output = [kind |-> "store", profile |-> createInitialProfile,
                 categories |-> createDefaultCategories, seenCardIds |-> seen,
                 generated |-> 0, result |-> NoResult]

Called(name, id, arg, state) ==
  /\ output.kind = "store"
  /\ calls < MaxCalls
  /\ calls' = calls + 1
  /\ input' = Op(name, id, arg)
  /\ output' = state
  /\ UNCHANGED <<backendPresent, lm, initialized, initializing, fallbackEnabled,
                 lastDownloadPercent, nextHandle, released, call>>

RecordFactInteraction(category, action) ==
  Called("recordFactInteraction", category, action, recordFactInteraction(output, category, action))

RecordQuizResult(category, correct) ==
  Called("recordQuizResult", category, IF correct THEN "correct" ELSE "wrong",
            recordQuizResult(output, category, correct))

AddSeenCard(id) == Called("addSeenCard", "none", id, addSeenCard(output, id))

ClearSeenCards == Called("clearSeenCards", "none", "none", clearSeenCards(output))

ResetAll == Called("resetAll", "none", "none", resetAll(output))

EnsureDefaultCategories ==
  Called("ensureDefaultCategories", "none", "none", ensureDefaultCategories(output))

ImportCategory(name) ==
  /\ output.generated < MaxImports
  /\ Called("importCategory", "none", name, importCategory(output, name))

ToggleCategoryEnabled(id, enabled) ==
  Called("toggleCategoryEnabled", id, IF enabled THEN "on" ELSE "off",
         toggleCategoryEnabled(output, id, enabled))

RenameCategory(id, name) == Called("renameCategory", id, name, renameCategory(output, id, name))

DeleteCategory(id) == Called("deleteCategory", id, "none", deleteCategory(output, id))

StoreNext ==
  \/ \E id \in CalledIds(output), action \in FactActions : RecordFactInteraction(id, action)
  \/ \E id \in CalledIds(output), correct \in BOOLEAN : RecordQuizResult(id, correct)
  \/ \E id \in CardIds : AddSeenCard(id)
  \/ ClearSeenCards
  \/ ResetAll
  \/ EnsureDefaultCategories
  \/ \E name \in NameInputs : ImportCategory(name)
  \/ \E id \in CalledIds(output), enabled \in BOOLEAN : ToggleCategoryEnabled(id, enabled)
  \/ \E id \in CalledIds(output), name \in NameInputs : RenameCategory(id, name)
  \/ \E id \in CalledIds(output) : DeleteCategory(id)

StoreSpec == StoreInit /\ [][StoreNext]_vars

\* ==================================================================== claims

\* the callers whose initialization attempt is in flight
Attempting == {c \in Procs : call[c].pc \in {"download", "init"}}

\* the callers that found an initialization in flight and poll for its end
Waiting == {c \in Procs : call[c].pc = "init_wait"}

\* the step in which an initialize() of caller c ends, called directly or by
\* ensureInitialized()
InitializeEnds(c) ==
  \/ CallInitialize(c) /\ call'[c].pc = "done"
  \/ CallParse(c) /\ ~initialized /\ call'[c].pc \in {"ensured", "done"}
  \/ Poll(c)
  \/ DownloadFails(c)
  \/ InitSucceeds(c)
  \/ InitFails(c)

Ready == lm # NoHandle /\ ~fallbackEnabled

FallbackState == lm = NoHandle /\ fallbackEnabled

\* C1: concurrent initialize() calls start one backend initialization: at most
\* one caller is between the construction of a handle and the end of its
\* attempt, the initializing flag is set exactly while one is, and a caller
\* that found the attempt in flight constructed no handle of its own.
C1_SingleAttempt ==
  /\ Cardinality(Attempting) <= 1
  /\ initializing <=> Attempting # {}
  /\ \A c \in Waiting : call[c].inst = NoHandle /\ call[c].events = <<>>

\* C1 witness: one caller runs the attempt while another one waits for it
C1_Witness ==
  \E a, b \in Procs :
    /\ a \in Attempting
    /\ b \in Waiting
    /\ nextHandle = 1

\* C2 (as claimed): whenever an initialize() ends, the service is either Ready
\* (handle held, fallback off) or FallbackEnabled (no handle, fallback on).
C2_Original ==
  [][\A c \in Procs : InitializeEnds(c) => (Ready' \/ FallbackState')]_vars

\* C3 (as claimed): every caller that waits for an initialization in flight
\* eventually returns.
C3_Original ==
  \A c \in Procs : (call[c].pc = "init_wait") ~> (call[c].pc # "init_wait")

\* C4: fallback mode, once on, stays on, and a pipeline call made while it is
\* on never issues a completion call to a handle (it runs the heuristics).
C4_FallbackStable ==
  [][/\ fallbackEnabled => fallbackEnabled'
     /\ \A c \in Procs :
          call'[c].fbAtCall => call'[c].pc # "complete" /\ call'[c].mode # "model"]_vars

\* C4 witness: a handle is held, fallback mode is on, and an extraction called
\* in fallback mode has run the heuristics
C4_Witness ==
  \E c \in Procs :
    /\ fallbackEnabled
    /\ lm # NoHandle
    /\ call[c].op = "parse"
    /\ call[c].fbAtCall
    /\ call[c].pc = "done"
    /\ call[c].mode = "fallback"

\* C5 (as claimed): when a destroy() called in Ready or in FallbackEnabled
\* ends, no handle is held and the service is uninitialized.
C5_Original ==
  [][\A c \in Procs :
       (DestroyEnds(c) \/ (CallDestroy(c) /\ initialized /\ call'[c].pc = "done"))
         => (lm' = NoHandle /\ ~initialized')]_vars

\* C5 (amended): when a destroy() that found a handle ends, the backend's
\* destroy was invoked on that handle, no handle is held and the service is
\* uninitialized; a destroy() that finds no handle, as in FallbackEnabled,
\* returns at once and changes nothing.
C5_DestroyResets ==
  [][\A c \in Procs :
       /\ DestroyEnds(c) =>
            (lm' = NoHandle /\ ~initialized' /\ call[c].dh \in released')
       /\ (CallDestroy(c) /\ lm = NoHandle) =>
            (call'[c].pc = "done" /\ UNCHANGED <<service, released>>)]_vars

\* C5 witness: a destroy() that found a handle has ended
C5_Witness ==
  \E c \in Procs :
    /\ call[c].op = "destroy"
    /\ call[c].pc = "done"
    /\ call[c].dh # NoHandle
    /\ call[c].dh \in released
    /\ lm = NoHandle
    /\ ~initialized

\* C6: when the download or the init step of an attempt fails, that
\* initialize() ends normally with the service initialized, no handle held and
\* fallback mode on.
C6_FailureFallsBack ==
  [][\A c \in Procs :
       (DownloadFails(c) \/ InitFails(c)) =>
         /\ initialized' /\ ~initializing'
         /\ lm' = NoHandle
         /\ fallbackEnabled'
         /\ call'[c].outcome # "threw"
         /\ call'[c].pc = IF call[c].op = "parse" THEN "ensured" ELSE "done"]_vars

\* C6 witness: an extraction whose own initialization attempt failed (its
\* handle, the only one constructed, is neither held nor destroyed) has
\* returned facts of the heuristics
C6_Witness ==
  \E c \in Procs :
    /\ call[c].op = "parse"
    /\ call[c].inst # NoHandle
    /\ nextHandle = 1 /\ lm = NoHandle /\ released = {}
    /\ call[c].pc = "done"
    /\ call[c].outcome = "returned"
    /\ call[c].mode = "fallback"
    /\ Len(call[c].facts) > 0

\* C7: with the backend absent no handle is ever constructed, no call raises,
\* initialize() emits no progress event, and once an initialize() has ended
\* the service is initialized in fallback mode.
C7_BackendAbsent ==
  ~backendPresent =>
    /\ nextHandle = 0
    /\ lm = NoHandle
    /\ \A c \in Procs :
         /\ call[c].outcome # "threw"
         /\ call[c].inst = NoHandle
         /\ \A i \in 1..Len(call[c].events) : call[c].events[i].type # "model-download"
         /\ (call[c].op = "initialize" /\ call[c].pc = "done") =>
              (initialized /\ fallbackEnabled /\ call[c].events = <<>>)

\* C7 witness: the backend is absent and an initialize() has ended
C7_Witness ==
  \E c \in Procs :
    /\ ~backendPresent
    /\ call[c].op = "initialize"
    /\ call[c].pc = "done"
    /\ call[c].outcome = "returned"

\* C8 (as claimed): in a model-path run every parse-chunk-start for chunk i is
\* followed, before any other event of the run but a parse-error, by the
\* parse-chunk-complete for chunk i, which carries factsGenerated = 0 when
\* the completion call of the chunk failed.
C8_Original ==
  \A c \in Procs :
    call[c].mode = "model" =>
      \A i \in 1..(Len(call[c].events) - 1) :
        LET e == call[c].events[i]
            n == call[c].events[i + 1]
        IN  (e.type = "parse-chunk-start" /\ n.type # "parse-error") =>
              /\ n.type = "parse-chunk-complete"
              /\ n.chunkIndex = e.chunkIndex
              /\ (call[c].resp[e.chunkIndex].kind = "fail" => n.factsGenerated = 0)

\* the facts of the chunks whose completion call succeeded, in chunk order
RECURSIVE FactsOf(_, _)
FactsOf(r, i) ==
  IF i > Len(r) THEN <<>>
  ELSE (IF r[i].kind = "ok" THEN ChunkFacts(i, r[i].lines) ELSE <<>>) \o FactsOf(r, i + 1)

IsChunkStart(e) == e.type = "parse-chunk-start"

NoMalformed(f) == \A i \in 1..Len(f.resp) : f.resp[i].kind # "noresponse"

\* C9: a model-path run in which completion calls failed (and none returned a
\* malformed success) has processed every chunk in order, returned normally
\* with exactly the facts of the chunks that succeeded, and ended with
\* parse-complete, without any parse-error.
C9_FailedChunkSkipped ==
  \A c \in Procs :
    LET f == call[c]
        starts == SelectSeq(f.events, IsChunkStart)
    IN  (f.mode = "model" /\ f.pc = "done" /\ f.totalChunks > 0 /\ NoMalformed(f)) =>
          /\ f.outcome = "returned"
          /\ Len(f.resp) = f.totalChunks
          /\ f.facts = FactsOf(f.resp, 1)
          /\ Len(starts) = f.totalChunks
          /\ \A i \in 1..Len(starts) : starts[i].chunkIndex = i
          /\ f.events[Len(f.events)] = Ev("parse-complete", 0, f.totalChunks, Len(f.facts))
          /\ \A i \in 1..Len(f.events) : f.events[i].type # "parse-error"

\* C9 witness: a run of two chunks in which the first completion call failed
\* and the second gave a fact has returned that fact
C9_Witness ==
  \E c \in Procs :
    /\ call[c].mode = "model"
    /\ call[c].pc = "done"
    /\ call[c].resp = <<Resp("fail", 0), Resp("ok", 1)>>
    /\ call[c].facts = <<<<2, 1>>>>
    /\ call[c].outcome = "returned"

IsParseEvent(e) ==
  e.type \in {"parse-start", "parse-chunk-start", "parse-chunk-complete",
              "parse-complete", "parse-error"}

ParseEvents(f) == SelectSeq(f.events, IsParseEvent)

\* C11 (as claimed): a parseTextToFacts whose text is empty after trimming
\* returns no fact and emits no extraction event, in the model path and in the
\* fallback path.
C11_Original ==
  \A c \in Procs :
    (call[c].op = "parse" /\ call[c].pc = "done" /\ call[c].outcome = "returned"
       /\ call[c].input = 0) =>
      (call[c].facts = <<>> /\ ParseEvents(call[c]) = <<>>)

IsChunkComplete(e) == e.type = "parse-chunk-complete"

IsParseStart(e) == e.type = "parse-start"

\* facts ordered by chunk, then by response line
FactsInOrder(facts) ==
  \A i, j \in 1..Len(facts) :
    i < j => \/ facts[i][1] < facts[j][1]
             \/ (facts[i][1] = facts[j][1] /\ facts[i][2] < facts[j][2])

\* C14: a model-path run handles its chunks one after the other: at most one
\* completion call is outstanding, and it is the call for the chunk started
\* last, every earlier chunk having ended; parse-start is the first event and
\* carries the chunk count; the parse-chunk-start events carry 1, 2, ... in
\* this order, each parse-chunk-complete directly follows the start of its
\* chunk; the facts are ordered by chunk and then by response line.
C14_Sequential ==
  \A c \in Procs :
    LET f == call[c]
        pe == ParseEvents(f)
        starts == SelectSeq(pe, IsChunkStart)
    IN  (f.mode = "model" /\ f.totalChunks > 0) =>
          /\ pe[1] = Ev("parse-start", 0, f.totalChunks, 0)
          /\ Len(SelectSeq(pe, IsParseStart)) = 1
          /\ Len(starts) <= f.totalChunks
          /\ \A i \in 1..Len(starts) :
                starts[i].chunkIndex = i /\ starts[i].totalChunks = f.totalChunks
          /\ IF f.pc = "complete"
             THEN f.chunkIndex = Len(starts) /\ Len(f.resp) = Len(starts) - 1
             ELSE f.pc = "done" /\ Len(f.resp) = Len(starts)
          /\ \A i \in 2..Len(pe) :
                IsChunkComplete(pe[i]) =>
                  (IsChunkStart(pe[i - 1]) /\ pe[i - 1].chunkIndex = pe[i].chunkIndex)
          /\ FactsInOrder(f.facts)

\* C14 witness: a run of two chunks, each answered with two fact lines, has
\* returned the four facts in the order of the chunks and of the lines
C14_Witness ==
  \E c \in Procs :
    /\ call[c].mode = "model"
    /\ call[c].pc = "done"
    /\ call[c].totalChunks = 2
    /\ call[c].facts = <<<<1, 1>>, <<1, 2>>, <<2, 1>>, <<2, 2>>>>

\* the four events of an extraction over one chunk that gave n facts
SingleChunkEvents(n) ==
  <<Ev("parse-start", 0, 1, 0),
    Ev("parse-chunk-start", 1, 1, 0),
    Ev("parse-chunk-complete", 1, 1, n),
    Ev("parse-complete", 0, 1, n)>>

\* C15: an extraction in fallback mode returns normally and has emitted
\* exactly the four events parse-start(totalChunks 1), parse-chunk-start(1),
\* parse-chunk-complete(1, n) and parse-complete(n), n being the number of
\* facts it returns; a model-path run over one chunk whose completion call
\* succeeded has emitted the same four events.
C15_FallbackEvents ==
  \A c \in Procs :
    LET f == call[c]
    IN  /\ (f.mode = "fallback" /\ f.pc = "done") =>
              (f.outcome = "returned" /\ ParseEvents(f) = SingleChunkEvents(Len(f.facts)))
        /\ (f.mode = "model" /\ f.pc = "done" /\ f.totalChunks = 1
               /\ f.resp[1].kind = "ok") =>
              ParseEvents(f) = SingleChunkEvents(Len(f.facts))

\* C15 witness: an extraction in fallback mode has returned a fact
C15_Witness ==
  \E c \in Procs :
    /\ call[c].mode = "fallback"
    /\ call[c].pc = "done"
    /\ Len(call[c].facts) = 1
    /\ Len(ParseEvents(call[c])) = 4

\* the facts of the extraction under study
Facts == IF output.kind = "facts" THEN output.facts ELSE <<>>

\* C12 (as claimed): no two facts of one extraction have the same content when
\* compared without regard to case, in the model path and in the fallback path.
C12_Original ==
  \A i, j \in 1..Len(Facts) :
    i # j => toLowerCase(Facts[i].content) # toLowerCase(Facts[j].content)

\* C12, the fallback path alone (as claimed)
C12_Original_Fallback ==
  (output.kind = "facts" /\ output.path = "fallback") => C12_Original

\* C13: every fact of an extraction, in the model path and in the fallback
\* path, has a content of 1 to 200 characters, the source "default" and id 0.
C13_FactShape ==
  \A i \in 1..Len(Facts) :
    /\ Facts[i].content # <<>>
    /\ StrLen(Facts[i].content) >= 1
    /\ StrLen(Facts[i].content) <= MaxFactLength
    /\ Facts[i].source = "default"
    /\ Facts[i].id = 0

\* C13 witness: the fallback path has cut a sentence of more than 200
\* characters down to a fact of 200
C13_Witness ==
  /\ output.kind = "facts"
  /\ output.path = "fallback"
  /\ \E i \in 1..Len(Facts) :
       /\ StrLen(Facts[i].content) = MaxFactLength
       /\ \A j \in 1..Len(Sentences(input.text)) : Facts[i].content # Sentences(input.text)[j]

\* the questions parseQuizBatch returned
Questions == IF output.kind = "quiz" THEN output.questions ELSE <<>>

\* C16: every question parseQuizBatch returns has a non-empty question, 4
\* options that are non-empty strings, and as correct_answer one of the
\* integers 0, 1, 2, 3, whatever the response gave as correct_answer.
C16_QuizShape ==
  \A i \in 1..Len(Questions) :
    LET q == Questions[i]
    IN  /\ TextLength(q.question) > 0
        /\ Len(q.options) = 4
        /\ \A j \in 1..4 : TextLength(q.options[j]) > 0
        /\ q.correct_answer \in {0, 10, 20, 30}

\* C16 witness: a response whose correct_answer is 7 gave a question with
\* correct_answer 3, and one whose correct_answer is 2.5 a question with 2
C16_Witness ==
  /\ Questions # <<>>
  /\ \/ input.d.answer = Num(70) /\ Questions[1].correct_answer = 30
     \/ input.d.answer = Num(25) /\ Questions[1].correct_answer = 20

\* the example response: prefix {question: 'Q?', options: ['a','b','c','d'],
\* correct_answer: 2} suffix (its question is written Q1 here)
ExampleResponse ==
  <<Prose, Tok("{"), WordTok("question"), Tok(":"), StrTok("sq", Plain("Q1")), Tok(","),
    WordTok("options"), Tok(":"), Tok("["), StrTok("sq", Plain("a")), Tok(","),
    StrTok("sq", Plain("b")), Tok(","), StrTok("sq", Plain("c")), Tok(","),
    StrTok("sq", Plain("d")), Tok("]"), Tok(","), WordTok("correct_answer"), Tok(":"),
    NumTok(Num(20)), Tok("}"), Prose>>

\* C17 (as claimed): the example response, one quiz object with bare keys and
\* single-quoted strings inside prose, gives exactly one question, with
\* correct_answer 2.
C17_Original ==
  (output.kind = "quiz" /\ input.raw = ExampleResponse) =>
    (Len(Questions) = 1 /\ Questions[1].correct_answer = 20)

\* the positions of the items of a description that are valid: an object with
\* a non-empty question and exactly 4 usable options
ValidKinds == {"good", "padded"}

ValidPositions(d) == {i \in 1..Len(d.items) : d.items[i] \in ValidKinds}

RECURSIVE Ascending(_)
Ascending(S) ==
  IF S = {} THEN <<>> ELSE <<Min(S)>> \o Ascending(S \ {Min(S)})

\* the forms in which the array is found and can be parsed, as it is or
\* after the repair
Parseable == {"strict", "prose", "relaxed", "trailing"}

\* C18: for a response whose array parses, parseQuizBatch returns the valid
\* items in their order, cut to the expected count, with the question and the
\* options trimmed; the invalid items leave no trace.
C18_ValidItems ==
  (output.kind = "quiz" /\ input.d.form \in Parseable) =>
    LET valid == Ascending(ValidPositions(input.d))
        n == IF output.expected < Len(valid) THEN output.expected ELSE Len(valid)
    IN  /\ Len(Questions) = n
        /\ \A i \in 1..n :
             /\ Questions[i].question = Plain(QuestionNames[valid[i]])
             /\ Questions[i].options = FourOptions

\* C18 witness: a response of 5 items, of which the 3 valid ones are not
\* neighbours, and an expected count of 3, gave the 3 valid items
C18_Witness ==
  /\ output.kind = "quiz"
  /\ Len(input.d.items) = 5
  /\ ValidPositions(input.d) = {1, 3, 5}
  /\ input.d.items[2] = "noOptions"
  /\ input.d.items[4] = "threeOptions"
  /\ output.expected = 3
  /\ Len(Questions) = 3

\* C19: parseQuizBatch always returns.  It parses the raw span first and the
\* repaired span second, and returns the empty list when there is no span,
\* when no candidate parses, and when no item of the array is valid.
C19_NeverRaises ==
  output.kind = "quiz" =>
    LET span == arrayMatch(input.raw)
    IN  /\ output.outcome = "returned"
        /\ output.tried \in {<<>>, <<"raw">>, <<"raw", "repaired">>}
        /\ span = <<>> => (output.tried = <<>> /\ Questions = <<>>)
        /\ (span # <<>> /\ Questions = <<>>) =>
             Len(output.tried) = Len(candidates(span))
        /\ (\A i \in 1..Len(candidates(span)) : ~JSONparse(candidates(span)[i].tokens).ok)
             => Questions = <<>>
        /\ (input.d.form \in Parseable /\ ValidPositions(input.d) = {}) => Questions = <<>>

\* C19 witness: a response whose span does not parse, even repaired, gave
\* the empty list after both candidates were tried
C19_Witness ==
  /\ output.kind = "quiz"
  /\ output.tried = <<"raw", "repaired">>
  /\ \A i \in 1..2 : ~JSONparse(candidates(arrayMatch(input.raw))[i].tokens).ok
  /\ output.outcome = "returned"
  /\ Questions = <<>>

\* the analysis the call of caller c returned
Analyzed(c) ==
  output.kind = "analyses" /\ call[c].op = "analyze" /\ call[c].pc = "done"
    /\ call[c].outcome = "returned"

\* C20 (as claimed): an analyzeUserPreference that found fallback mode on (or
\* no handle), whose completion call failed, or whose response could not be
\* parsed, has returned the baseline computed from the interactions.
C20_Original ==
  \A c \in Procs :
    (/\ Analyzed(c)
     /\ \/ call[c].mode = "fallback"
        \/ call[c].resp # <<>> /\ call[c].resp[1].kind \notin {"json", "otherjson"}) =>
      output.of[c] = baselineAnalysis(input)

\* C20, the cases of the fallback mode and of the response that cannot be
\* parsed alone (as claimed; these hold)
C20_Original_Others ==
  \A c \in Procs :
    (/\ Analyzed(c)
     /\ \/ call[c].mode = "fallback"
        \/ call[c].resp # <<>>
             /\ call[c].resp[1].kind \notin {"json", "otherjson", "fail"}) =>
      output.of[c] = baselineAnalysis(input)

\* a value has the PreferenceAnalysis shape
PreferenceAnalysisShape(v) ==
  DOMAIN v = {"preferred_topics", "disliked_topics", "neutral_topics", "overall_scores"}

\* C21 (as claimed): every value analyzeUserPreference returns has the
\* PreferenceAnalysis shape, and a response that holds an object of another
\* shape leads to the baseline.
C21_Original ==
  \A c \in Procs :
    Analyzed(c) =>
      /\ PreferenceAnalysisShape(output.of[c])
      /\ (call[c].resp # <<>> /\ call[c].resp[1].kind = "otherjson") =>
           output.of[c] = baselineAnalysis(input)

\* the number of interactions of the input
Total == input.right + input.left + input.other

\* C22: an analyzeUserPreference of no interactions returns the empty analysis
\* and never reaches the completion call, with a handle and in fallback mode.
C22_EmptyInteractions ==
  \A c \in Procs :
    (output.kind = "analyses" /\ call[c].op = "analyze" /\ Total = 0) =>
      /\ call[c].pc # "complete"
      /\ call[c].resp = <<>>
      /\ Analyzed(c) => output.of[c] = EmptyAnalysis

\* C22 witness: an analysis of no interactions returned while the service
\* held a handle (Ready)
C22_Witness ==
  \E c \in Procs :
    /\ Analyzed(c)
    /\ Total = 0
    /\ call[c].mode = "model"
    /\ lm # NoHandle /\ ~fallbackEnabled
    /\ output.of[c] = EmptyAnalysis

\* the calls that returned baselineAnalysis()
Baseline(c) ==
  /\ Analyzed(c)
  /\ \/ call[c].mode = "fallback"
     \/ call[c].resp # <<>> /\ call[c].resp[1].kind \in {"badjson", "nojson", "noresponse"}

\* the score in hundredths of a baseline analysis
General(a) == (CHOOSE p \in a.overall_scores : p[1] = "general")[2]

\* C23: the baseline of a non-empty interaction list with r right and l left
\* swipes, den = max(r + l, 1): preferred is ['general'] iff r / den > 0.6,
\* disliked is ['general'] iff r / den < 0.4, never both, neutral is empty, and
\* the score is the hundredth nearest to (r / den - 0.5) * 2; three right and
\* one left swipe give 0.5 and preferred ['general'].
C23_Baseline ==
  \A c \in Procs :
    (Baseline(c) /\ Total > 0) =>
      LET r == input.right
          l == input.left
          den == IF r + l > 1 THEN r + l ELSE 1
          a == output.of[c]
          s == General(a)
          err == s * den - 100 * (2 * r - den)
      IN  /\ PreferenceAnalysisShape(a)
          /\ a.preferred_topics = (IF 10 * r > 6 * den THEN <<"general">> ELSE <<>>)
          /\ a.disliked_topics = (IF 10 * r < 4 * den THEN <<"general">> ELSE <<>>)
          /\ ~(a.preferred_topics # <<>> /\ a.disliked_topics # <<>>)
          /\ a.neutral_topics = <<>>
          /\ Cardinality(a.overall_scores) = 1
          /\ 2 * err <= den /\ 2 * err >= 0 - den
          /\ (r = 3 /\ l = 1 /\ input.other = 0) =>
               (s = 50 /\ a.preferred_topics = <<"general">>)

\* C23 witness: the baseline of [right, right, right, left] was returned
C23_Witness ==
  \E c \in Procs :
    /\ Baseline(c)
    /\ input.right = 3 /\ input.left = 1 /\ input.other = 0
    /\ General(output.of[c]) = 50
    /\ output.of[c].preferred_topics = <<"general">>

\* the calls of generateQuizQuestions
Generating(c) == output.kind = "quizzes" /\ call[c].op = "quiz"

\* the call of caller c has returned
Generated(c) == Generating(c) /\ call[c].pc = "done" /\ call[c].outcome = "returned"

\* C24: a generateQuizQuestions that finds fallback mode active or has no
\* facts returns the empty list at once, without a completion call; every call
\* issues at most one completion call, whose prompt holds at most 8 facts (the
\* first min(n, 8) of the n given).
C24_NoCallOrOne ==
  [][\A c \in Procs :
       /\ (/\ Generating(c)
           /\ call[c].pc = "ensured" /\ call'[c] # call[c]
           /\ (fallbackEnabled \/ input.count = 0)) =>
            (/\ call'[c].pc = "done" /\ call'[c].outcome = "returned"
             /\ output'.of[c] = <<>>
             /\ output'.sent[c] = <<>>)
       /\ (output'.kind = "quizzes" /\ call'[c].op = "quiz") =>
            (/\ Len(output'.sent[c]) <= 1
             /\ \A i \in 1..Len(output'.sent[c]) :
                  /\ output'.sent[c][i] <= 8
                  /\ output'.sent[c][i] <= input.count
                  /\ output'.sent[c][i] \in {8, input.count})]_vars

\* C24 witness: a call with 9 facts issued its one completion call with 8
\* facts in the prompt and returned
C24_Witness ==
  \E c \in Procs :
    /\ Generated(c)
    /\ input.count = 9
    /\ output.sent[c] = <<8>>

\* C25: a generateQuizQuestions whose completion call failed, or whose
\* response held no valid item, has returned the empty list; no call that
\* reached the completion call raises.
C25_EmptyOnFailure ==
  \A c \in Procs :
    (Generating(c) /\ call[c].pc = "done" /\ call[c].resp # <<>>) =>
      /\ call[c].outcome = "returned"
      /\ (call[c].resp[1].kind \in {"fail", "noresponse"} \/ call[c].resp[1].lines = 0) =>
           output.of[c] = <<>>

\* C25 witness: two calls returned the empty list, one after a failed
\* completion call, one after a response that could not be read
C25_Witness ==
  \E c, d \in Procs :
    /\ Generated(c) /\ Generated(d)
    /\ call[c].resp = <<Resp("fail", 0)>>
    /\ call[d].resp = <<Resp("noresponse", 0)>>
    /\ output.of[c] = <<>> /\ output.of[d] = <<>>

\* the completion calls in flight on the backend
InFlight == {c \in Procs : call[c].pc = "complete"}

\* C29 (as claimed): at most one completion call is in flight at any time.
C29_Original == Cardinality(InFlight) <= 1

\* C30: a destroy() that ends has returned, and when it ends the handle is
\* cleared and the service is uninitialized, also when the backend's destroy
\* raised.
C30_DestroyNeverRaises ==
  [][\A c \in Procs :
       (call[c].pc = "destroy" /\ call'[c].pc = "done") =>
         (/\ call'[c].outcome = "returned"
          /\ lm' = NoHandle
          /\ ~initialized')]_vars

\* C30 witness: a destroy() whose backend destroy raised has returned, with
\* the handle cleared and the service uninitialized
C30_Witness ==
  /\ output.kind = "quizzes"
  /\ \E c \in output.caught :
       /\ call[c].op = "destroy" /\ call[c].pc = "done" /\ call[c].outcome = "returned"
       /\ lm = NoHandle
       /\ ~initialized

\* the model-download events a call emitted
DownloadEvents(c) == SelectSeq(call[c].events, LAMBDA e : e.type = "model-download")

\* C26 (as claimed): during one download no two model-download events are
\* emitted for the same integer percent.
C26_Original ==
  \A c \in Procs :
    \A i, j \in 1..Len(DownloadEvents(c)) :
      i # j => Percent(DownloadEvents(c)[i].progress) # Percent(DownloadEvents(c)[j].progress)

\* C26, for progress values that never fall back to an earlier percent (as
\* claimed; this holds): while the reports do not decrease, one event per
\* percent is emitted.
C26_Original_Ascending ==
  (/\ output.kind = "download"
   /\ \A i, j \in 1..Len(input.reports) :
        (i < j /\ input.reports[i] # NonFinite /\ input.reports[j] # NonFinite) =>
          input.reports[i] <= input.reports[j])
    => C26_Original

\* the listeners in progressListeners
Subscribed == {output.progressListeners[i] : i \in 1..Len(output.progressListeners)}

\* C27: an emitProgress delivers the event to every subscribed listener, also
\* when listeners throw, and returns to the emitting stage.
C27_Isolated ==
  [][(output.kind = "listeners" /\ output'.emitted = output.emitted + 1) =>
       /\ output'.emit = "returned"
       /\ \A l \in Subscribed :
            output'.received[l] = Append(output.received[l], output'.emitted)
       /\ output'.logged = Subscribed \cap input.failing]_vars

\* C27 witness: a listener threw, a listener subscribed after it received the
\* same event, and emitProgress returned
C27_Witness ==
  /\ output.kind = "listeners"
  /\ output.emit = "returned"
  /\ \E i, j \in 1..Len(output.progressListeners) :
       LET a == output.progressListeners[i]
           b == output.progressListeners[j]
       IN  /\ i < j
           /\ a \in output.logged
           /\ b \notin input.failing
           /\ output.received[a] # <<>>
           /\ output.received[b] # <<>>
           /\ output.received[b][Len(output.received[b])] = output.emitted
           /\ output.received[a][Len(output.received[a])] = output.emitted

\* the events n .. m in emission order
Emitted(n, m) == [k \in 1..(m - n + 1) |-> n + k - 1]

\* the events listener l received among the events n .. m
ReceivedIn(l, n, m) == SelectSeq(output.received[l], LAMBDA e : n <= e /\ e <= m)

\* C28 (as claimed): a listener receives every event emitted between its
\* subscribeProgress call and the call of the unsubscribe function that call
\* returned, once and in emission order.
C28_Original ==
  output.kind = "listeners" =>
    \A i \in 1..Len(output.subscriptions) :
      LET sub == output.subscriptions[i]
      IN  ~sub.own =>
            ReceivedIn(sub.listener, sub.from + 1, output.emitted)
              = Emitted(sub.from + 1, output.emitted)

\* C28: a listener receives every event emitted between a subscribeProgress
\* call for it and the first call of any unsubscribe function returned for
\* that listener, once and in emission order, and no event while it is not
\* subscribed.
C28_WhileSubscribed ==
  output.kind = "listeners" =>
    /\ \A i \in 1..Len(output.subscriptions) :
         LET sub == output.subscriptions[i]
             end == IF sub.to = NoEnd THEN output.emitted ELSE sub.to
         IN  ReceivedIn(sub.listener, sub.from + 1, end) = Emitted(sub.from + 1, end)
    /\ \A l \in Listeners :
         \A k \in 1..Len(output.received[l]) :
           \E i \in 1..Len(output.subscriptions) :
             LET sub == output.subscriptions[i]
             IN  /\ sub.listener = l
                 /\ sub.from < output.received[l][k]
                 /\ (sub.to = NoEnd \/ output.received[l][k] <= sub.to)

\* C28 witness: a listener received the first event, was unsubscribed, and did
\* not receive the second event, which another listener received
C28_Witness ==
  /\ output.kind = "listeners"
  /\ output.emitted = 2
  /\ \E a, b \in Listeners :
       /\ output.received[a] = <<1>>
       /\ output.received[b] = <<1, 2>>
       /\ \E i \in 1..Len(output.subscriptions) :
            /\ output.subscriptions[i] = [listener |-> a, from |-> 0, to |-> 1, own |-> TRUE]

\* the contents of the facts of the extraction under study
Contents == [i \in 1..Len(Facts) |-> Facts[i].content]

\* the description the text under study was written from
Described == output.kind = "facts" /\ output.path = "fallback" /\ "d" \in DOMAIN input

\* the sentences of the description, as strings
Given == Collected(input.d)

\* the sentences are on one line
OneLine == input.kind = "text" /\ input.d.gap # <<Run("\n", 1)>>

\* C31 (as claimed): in fallback mode a line of sentences, each ended by '.',
\* '!' or '?', gives one fact per sentence, in the order of the line, the fact
\* being the sentence with its terminator and without the blanks around it.
C31_Original == (Described /\ OneLine) => Contents = Given

\* no two sentences are equal when compared without regard to case
Distinct(sentences) ==
  \A i, j \in 1..Len(sentences) :
    i # j => toLowerCase(sentences[i]) # toLowerCase(sentences[j])

\* C31: in fallback mode a line of sentences, each ended by '.', '!' or '?',
\* that differ from each other without regard to case and have at most 200
\* characters each, gives one fact per sentence, in the order of the line, the
\* fact being the sentence with its terminator and without the blanks around
\* it; two sentences ended by '.' and '!' give exactly the two facts.
C31_OneFactPerSentence ==
  (/\ Described /\ OneLine
   /\ Distinct(Given)
   /\ \A i \in 1..Len(Given) : StrLen(Given[i]) <= MaxFactLength)
    => /\ Contents = Given
       /\ \A i \in 1..Len(Contents) :
            /\ Contents[i][Len(Contents[i])].ch = input.d.sentences[i].term
            /\ Contents[i][1].ch \notin Whitespace

\* C31 witness: "a a. A!" (two sentences with a blank between them) gave the
\* two facts "a a." and "A!"
C31_Witness ==
  /\ Described /\ OneLine
  /\ input.d.gap = <<Run(" ", 1)>>
  /\ input.d.sentences = <<Sentence(<<Run("a", 1), Run(" ", 1), Run("a", 1)>>, "."),
                           Sentence(<<Run("A", 1)>>, "!")>>
  /\ Contents = <<<<Run("a", 1), Run(" ", 1), Run("a", 1), Run(".", 1)>>,
                  <<Run("A", 1), Run("!", 1)>>>>

\* the positions of the sentences that differ from every earlier one
FirstOfKind(sentences) ==
  {i \in 1..Len(sentences) :
     \A j \in 1..(i - 1) : toLowerCase(sentences[j]) # toLowerCase(sentences[i])}

HasTotalChunks(e) ==
  e.type \in {"parse-start", "parse-chunk-start", "parse-chunk-complete", "parse-complete"}

\* C32: in the model path the chunks of the trimmed text have 1 to 6000
\* characters each and give the trimmed text when joined; there is one chunk
\* for a text of up to 6000 characters and ceil(length / 6000) chunks for a
\* longer one, and every event of the run carries this number as totalChunks.
C32_Chunks ==
  \A c \in Procs :
    (input.kind = "text" /\ call[c].op = "parse" /\ call[c].mode = "model") =>
      LET text == trim(input.text)
          length == StrLen(text)
          cs == chunks(input.text)
      IN  /\ Canon(Flatten(cs)) = text
          /\ \A i \in 1..Len(cs) : StrLen(cs[i]) >= 1 /\ StrLen(cs[i]) <= 6000
          /\ (length >= 1 /\ length <= 6000) => Len(cs) = 1
          /\ Len(cs) = (length + 5999) \div 6000
          /\ \A i \in 1..Len(call[c].events) :
               HasTotalChunks(call[c].events[i]) => call[c].events[i].totalChunks = Len(cs)

\* C32 witness: a text of 12001 characters was extracted in three chunks, the
\* last of one character, and the run has ended
C32_Witness ==
  \E c \in Procs :
    /\ input.kind = "text"
    /\ call[c].op = "parse" /\ call[c].mode = "model" /\ call[c].pc = "done"
    /\ StrLen(trim(input.text)) = 2 * ChunkLimit + 1
    /\ Len(chunks(input.text)) = 3
    /\ StrLen(chunks(input.text)[3]) = 1
    /\ call[c].events[Len(call[c].events)] = Ev("parse-complete", 0, 3, Len(call[c].facts))

IsTerminal(e) == e.type \in {"parse-complete", "parse-error"}

\* the sum of the factsGenerated of the parse-chunk-complete events
RECURSIVE ChunkSum(_)
ChunkSum(events) ==
  IF events = <<>> THEN 0
  ELSE (IF IsChunkComplete(Head(events)) THEN Head(events).factsGenerated ELSE 0)
         + ChunkSum(Tail(events))

\* the extraction run of caller c has emitted parse-start
RunStarted(c) ==
  call[c].op = "parse" /\ SelectSeq(call[c].events, IsParseStart) # <<>>

\* the extraction run of caller c has ended with one terminal event
RunEnded(c) ==
  /\ call[c].op = "parse" /\ call[c].pc = "done"
  /\ Len(SelectSeq(call[c].events, IsTerminal)) = 1

\* a run has at most one terminal event, which is its last event and ends it;
\* parse-complete carries the number of facts returned, which is the sum over
\* the parse-chunk-complete events
TerminalOnce ==
  \A c \in Procs :
    LET f == call[c]
        terminals == SelectSeq(f.events, IsTerminal)
    IN  f.op = "parse" =>
          /\ Len(terminals) <= 1
          /\ (f.pc = "done" /\ RunStarted(c)) => Len(terminals) = 1
          /\ terminals # <<>> =>
               /\ f.pc = "done"
               /\ f.events[Len(f.events)] = terminals[1]
               /\ f.outcome = (IF terminals[1].type = "parse-complete" THEN "returned" ELSE "threw")
               /\ terminals[1].type = "parse-complete" =>
                    /\ terminals[1].factsGenerated = Len(f.facts)
                    /\ terminals[1].factsGenerated = ChunkSum(f.events)

\* C34: every extraction run that has emitted parse-start ends, with exactly
\* one terminal event (parse-complete or parse-error), which is its last
\* event; parse-complete carries the number of facts returned, the sum of the
\* factsGenerated of the parse-chunk-complete events.
C34_RunEnds ==
  /\ []TerminalOnce
  /\ \A c \in Procs : RunStarted(c) ~> RunEnded(c)

\* C34 witness: a run of two chunks, one of which failed, ended with a
\* parse-complete that carries the two facts of the other chunk
C34_Witness ==
  \E c \in Procs :
    /\ RunEnded(c)
    /\ call[c].totalChunks = 2
    /\ \E i \in 1..Len(call[c].resp) : call[c].resp[i].kind = "fail"
    /\ call[c].events[Len(call[c].events)] = Ev("parse-complete", 0, 2, 2)
    /\ Len(call[c].facts) = 2

\* the handles constructed so far
Constructed == 1..nextHandle

\* handle h belongs to an initialize() attempt that is still awaiting its
\* download or its init
InAttempt(h) ==
  \E c \in Procs : call[c].pc \in {"download", "init"} /\ call[c].inst = h

\* C35 (as claimed): every handle constructed by an initialize() attempt that
\* is over is the service's current handle or has had the backend's destroy
\* invoked on it.
C35_Original ==
  \A h \in Constructed : InAttempt(h) \/ h = lm \/ h \in released

\* at most MAX_ENABLED_CATEGORIES categories are enabled
EnabledWithinCeiling == getEnabledCount(output.categories) <= MAX_ENABLED_CATEGORIES

\* the category the last call named exists and is disabled
NamedDisabled(state, id) ==
  /\ findIndex(state.categories, id) # NotFound
  /\ ~state.categories[findIndex(state.categories, id)].enabled

\* a call made while the ceiling is reached: an import adds its category
\* disabled and says why, and enabling a disabled category fails with the
\* reason and changes neither the categories nor the profile
AtCeiling ==
  getEnabledCount(output.categories) >= MAX_ENABLED_CATEGORIES =>
    /\ input'.op = "importCategory" =>
         /\ Len(output'.categories) = Len(output.categories) + 1
         /\ ~output'.categories[Len(output'.categories)].enabled
         /\ output'.result = [success |-> TRUE, enabled |-> FALSE, reason |-> CeilingReason]
    /\ (input'.op = "toggleCategoryEnabled" /\ input'.arg = "on"
          /\ NamedDisabled(output, input'.id)) =>
         /\ output'.result = [success |-> FALSE, reason |-> CeilingReason]
         /\ output'.categories = output.categories
         /\ output'.profile = output.profile

\* C36: in every state of the store at most 5 categories are enabled; with 5
\* enabled, importCategory adds the new category disabled, and
\* toggleCategoryEnabled(id, true) of a disabled category fails with a reason
\* and leaves categories and profile as they were.
C36_Ceiling == []EnabledWithinCeiling /\ [][AtCeiling]_vars

\* C36 witness: with the five defaults enabled, an imported category was added
\* disabled, and the call to enable it has just failed with the reason
C36_Witness ==
  /\ input.op = "toggleCategoryEnabled" /\ input.arg = "on"
  /\ getEnabledCount(output.categories) = MAX_ENABLED_CATEGORIES
  /\ NamedDisabled(output, input.id)
  /\ output.categories[findIndex(output.categories, input.id)].kind = "imported"
  /\ output.result = [success |-> FALSE, reason |-> CeilingReason]

\* the id and the name of every category
Named(categories) == {<<categories[i].id, categories[i].name>> : i \in 1..Len(categories)}

\* the five defaults exist, each once, with their names
DefaultsPresent ==
  \A k \in 1..Len(DEFAULT_CATEGORY_DEFINITIONS) :
    LET definition == DEFAULT_CATEGORY_DEFINITIONS[k]
        found == {i \in 1..Len(output.categories) : output.categories[i].id = definition.id}
    IN  /\ Cardinality(found) = 1
        /\ \A i \in found : /\ output.categories[i].name = definition.name
                            /\ output.categories[i].kind = "default"

\* renameCategory and deleteCategory of a default or of an id without a
\* category change nothing, and whatever is renamed or removed is imported
DefaultsFramed ==
  /\ (/\ input'.op \in {"renameCategory", "deleteCategory"}
      /\ \/ input'.id \in Ids(DEFAULT_CATEGORY_DEFINITIONS)
         \/ input'.id \notin Ids(output.categories)) => output' = output
  /\ \A i \in 1..Len(output.categories) :
       <<output.categories[i].id, output.categories[i].name>> \notin Named(output'.categories)
         => output.categories[i].kind = "imported"

\* C37: the five default categories exist with their default names in every
\* state of the store; deleteCategory and renameCategory of a default category
\* or of an unknown id leave the store unchanged, and only imported categories
\* are renamed or removed.
C37_Defaults == []DefaultsPresent /\ [][DefaultsFramed]_vars

\* C37 witness: deleteCategory was called on a default category after an
\* imported category was renamed, and all six categories are still there
C37_Witness ==
  /\ input.op = "deleteCategory" /\ input.id = "science"
  /\ Len(output.categories) = Len(DEFAULT_CATEGORY_DEFINITIONS) + 1
  /\ \E i \in 1..Len(output.categories) :
       output.categories[i].kind = "imported" /\ output.categories[i].name = "Notes"

\* C38 (as claimed): the keys of profile.categoryScores are the ids of the
\* categories, in every state of the store.
C38_Original == DOMAIN output.profile.categoryScores = Ids(output.categories)

\* no id twice, no more than 200 ids
SeenBounded ==
  /\ Len(output.seenCardIds) <= MaxSeenCards
  /\ Cardinality({output.seenCardIds[i] : i \in 1..Len(output.seenCardIds)})
       = Len(output.seenCardIds)

\* addSeenCard of a seen id changes nothing; a new id is put last, after the
\* others, without the oldest when the list was full
SeenAdded ==
  input'.op = "addSeenCard" =>
    IF includes(output.seenCardIds, input'.arg)
    THEN output'.seenCardIds = output.seenCardIds
    ELSE IF Len(output.seenCardIds) = MaxSeenCards
    THEN output'.seenCardIds = Append(Tail(output.seenCardIds), input'.arg)
    ELSE output'.seenCardIds = Append(output.seenCardIds, input'.arg)

\* C39: seenCardIds holds no id twice and at most 200 ids; addSeenCard of an id
\* already present leaves the list unchanged, and a new id added to a full list
\* drops the oldest id and is last.
C39_Seen == []SeenBounded /\ [][SeenAdded]_vars

\* C39 witness: card 201 was added to the full list 1..200, which is now
\* 2..201
C39_Witness ==
  /\ input.op = "addSeenCard" /\ input.arg = MaxSeenCards + 1
  /\ Len(output.seenCardIds) = MaxSeenCards
  /\ output.seenCardIds[1] = 2
  /\ output.seenCardIds[MaxSeenCards] = MaxSeenCards + 1

====
